---- MODULE Spec2Model ----
(***************************************************************************)
(* Model of the Career & Skills Recommendation System engine               *)
(* (career_api/app/core/engine.py) and of the readiness guard of its       *)
(* HTTP endpoints (career_api/app/api/v1/endpoints/*.py).                  *)
(*                                                                         *)
(* Numbers are fixed point integers:                                       *)
(*   skill scores and requirements   1 = 0.001  (7.0 is 7000)              *)
(*   encoder similarities            1 = 0.1    (rank weights 10, 6, 3)    *)
(*   cosine similarity, goal bonus   1 = 0.001                             *)
(*   final ranking score (_score)    1 = 0.0001                            *)
(*   Match Score (%)                 1 = 0.1                               *)
(*   risk scores and thresholds      1 = 0.001                             *)
(* Floating point rounding error of the arithmetic is not modelled.        *)
(***************************************************************************)
EXTENDS Integers, Sequences, FiniteSets, TLC

VARIABLES engine, loadPc, pending, resp

vars == <<engine, loadPc, pending, resp>>

(***************************************************************************)
(* Bounds of the model.                                                    *)
(***************************************************************************)
MaxPhrases == 1
MaxTopN == 3

(***************************************************************************)
(* Arithmetic helpers.                                                     *)
(***************************************************************************)
Min(a, b) == IF a <= b THEN a ELSE b

Max(a, b) == IF a >= b THEN a ELSE b

Abs(a) == IF a >= 0 THEN a ELSE -a

RECURSIVE SeqSum(_)
SeqSum(s) == IF s = <<>> THEN 0 ELSE Head(s) + SeqSum(Tail(s))

(* the float NaN in a numeric field read from a data file; arithmetic on   *)
(* it gives NaN                                                            *)
NaN == -1000000

IsFinite(x) == x # NaN

(* Python's None in a field that holds numbers *)
None == -2000000

(* fillna(0), and _sanitise on a number *)
SanitiseNum(x) == IF IsFinite(x) THEN x ELSE 0

NanSum(s) == IF \E k \in DOMAIN s : s[k] = NaN THEN NaN ELSE SeqSum(s)

(* round(num / den) to the nearest integer, ties to even, den > 0:         *)
(* Python's round() on the exact quotient.                                 *)
RoundDiv(num, den) ==
    LET q == num \div den
        r == num % den
    IN  IF 2 * r < den THEN q
        ELSE IF 2 * r > den THEN q + 1
        ELSE IF q % 2 = 0 THEN q ELSE q + 1

(* a * num = q * den + r with 0 <= r < den, for 0 <= num <= den, computed  *)
(* by doubling so that no intermediate value exceeds 2 * den               *)
RECURSIVE MulDivQR(_, _, _)
MulDivQR(a, num, den) ==
    IF a = 0 THEN <<0, 0>>
    ELSE LET h  == MulDivQR(a \div 2, num, den)
             d  == 2 * h[2]
             q1 == 2 * h[1] + (IF d >= den THEN 1 ELSE 0)
             r1 == IF d >= den THEN d - den ELSE d
             t  == r1 + (IF a % 2 = 1 THEN num ELSE 0)
         IN  IF t >= den THEN <<q1 + 1, t - den>> ELSE <<q1, t>>

(* round(a * num / den) to the nearest integer, ties to even *)
MulDivRound(a, num, den) ==
    LET h == MulDivQR(a, num, den)
    IN  IF 2 * h[2] < den THEN h[1]
        ELSE IF 2 * h[2] > den THEN h[1] + 1
        ELSE IF h[1] % 2 = 0 THEN h[1] ELSE h[1] + 1

RECURSIVE IsqrtIter(_, _, _)
IsqrtIter(x, lo, hi) ==
    IF lo >= hi THEN lo
    ELSE LET mid == (lo + hi + 1) \div 2
         IN  IF mid * mid <= x THEN IsqrtIter(x, mid, hi)
             ELSE IsqrtIter(x, lo, mid - 1)

(* floor(sqrt(x)) for 0 <= x < 2^30 *)
Isqrt(x) == IsqrtIter(x, 0, 32767)

Range(s) == { s[i] : i \in DOMAIN s }

(***************************************************************************)
(* Python dict, modelled as a function whose domain is the set of keys.    *)
(***************************************************************************)
EmptyDict == [k \in {} |-> 0]

DictGet(d, k, default) == IF k \in DOMAIN d THEN d[k] ELSE default

(***************************************************************************)
(* Catalogue data.  A data frame is a record: loaded (FALSE is None),      *)
(* skill_columns (its numeric columns outside the exclude list of          *)
(* _derive_skill_cols) and rows.  An occupation row keeps its requirement  *)
(* per skill column in req.                                                *)
(***************************************************************************)
NoFrame == [loaded |-> FALSE, skill_columns |-> <<>>, rows |-> <<>>]

OccRow(title, family, zone, risk, fps, req) ==
    [occupation |-> title, career_family |-> family, job_zone |-> zone,
     blended_risk |-> risk, future_proof_score |-> fps, req |-> req]

(* _build_demo_master: three zone-4 occupations without skill columns *)
DemoMaster ==
    [loaded |-> TRUE, skill_columns |-> <<>>,
     rows |-> << OccRow("Software Developers", "Technology", 4, 220, 82, EmptyDict),
                 OccRow("Computer Systems Analysts", "Technology", 4, 380, 70, EmptyDict),
                 OccRow("Registered Nurses", "Healthcare", 4, 120, 88, EmptyDict) >>]

Req2(a, b) == ("skill_programming" :> a) @@ ("skill_service" :> b)

Req3(a, b, c) == Req2(a, b) @@ ("skill_writing" :> c)

(* master_occupation_profiles.parquet with two skill dimensions: the       *)
(* three occupations of the ranking scenario, requirement vectors          *)
(* [5,0], [0,5], [3,3].                                                    *)
FileMaster2 ==
    [loaded |-> TRUE, skill_columns |-> <<"skill_programming", "skill_service">>,
     rows |-> << OccRow("Web Developers", "Technology", 4, 220, 82, Req2(5000, 0)),
                 OccRow("Nursing Assistants", "Healthcare", 2, 380, 70, Req2(0, 5000)),
                 OccRow("Data Analysts", "Technology", 4, 120, 88, Req2(3000, 3000)) >>]

(* master_occupation_profiles.parquet with three skill dimensions, two     *)
(* occupations of equal requirements, one without any requirement and one  *)
(* whose requirement is not a multiple of 0.01.                            *)
FileMaster3 ==
    [loaded |-> TRUE,
     skill_columns |-> <<"skill_programming", "skill_service", "skill_writing">>,
     rows |-> << OccRow("Web Developers", "Technology", 4, 220, 82, Req3(5000, 0, 2000)),
                 OccRow("Nursing Assistants", "Healthcare", 2, 380, 70, Req3(0, 5000, 1000)),
                 OccRow("Data Analysts", "Technology", 4, 120, 88, Req3(3000, 3000, 0)),
                 OccRow("Software Testers", "Technology", 3, 720, 70, Req3(5000, 0, 2000)),
                 OccRow("Ushers", "Service", 1, 1000, 40, Req3(0, 0, 0)),
                 OccRow("Greeters", "Service", 3, 900, 45, Req3(10, 20, 0)),
                 OccRow("Proofreaders", "Service", 3, 600, 55, Req3(0, 0, 3004)) >>]

CourseRow(title, level, quality, hours) ==
    [course_title |-> title, std_level |-> level, quality_score |-> quality,
     duration_hours |-> hours]

(* _build_demo_courses (quality 1 = 0.01, duration_hours 1 = 0.1 hour) *)
DemoCourses ==
    [loaded |-> TRUE, skill_columns |-> <<>>,
     rows |-> << CourseRow("Python for Data Science", "Foundation", 90, 300),
                 CourseRow("Machine Learning Specialisation", "Intermediate", 95, 600) >>]

(* unified_courses.parquet *)
FileCourses ==
    [loaded |-> TRUE, skill_columns |-> <<>>,
     rows |-> << CourseRow("Python for Data Science", "Foundation", 90, 305),
                 CourseRow("Customer Service Basics", "Foundation", 60, NaN),
                 CourseRow("Advanced Programming", "Advanced", 80, None),
                 CourseRow("Programming Crash Course", "Intermediate", 20, 50) >>]

(***************************************************************************)
(* Contents of the artifact files when they can be read.                   *)
(***************************************************************************)
(* skills_gap_engine.pkl: skill_cols and canonical_skills (description     *)
(* text as its list of words) of the catalogue it was built from.          *)
GapBundle(master) ==
    [skill_cols |-> master.skill_columns,
     canonical_skills |->
        [c \in Range(master.skill_columns) |->
            CASE c = "skill_programming" -> <<"writing", "computer", "programs", "python">>
              [] c = "skill_service"     -> <<"looking", "for", "ways", "to", "help", "people">>
              [] OTHER                   -> <<"communicating", "in", "writing">>]]

(* _set_default_risk_config: label, lo, hi in dict order *)
DefaultRiskThresholds ==
    << [label |-> "Low",       lo |-> 0,   hi |-> 350],
       [label |-> "Medium",    lo |-> 350, hi |-> 550],
       [label |-> "High",      lo |-> 550, hi |-> 720],
       [label |-> "Very High", lo |-> 720, hi |-> 1000] >>

(* _set_default_edu_levels *)
DefaultEduLevels ==
    ("cbc" :> <<"Foundation">>) @@
    ("8-4-4" :> <<"Foundation", "Intermediate">>) @@
    ("diploma" :> <<"Foundation", "Intermediate">>) @@
    ("graduate" :> <<"Intermediate", "Advanced">>) @@
    ("postgraduate" :> <<"Advanced">>) @@
    ("professional" :> <<"Intermediate", "Advanced">>)

(* education_level_map of course_recommender_v2.pkl *)
BundleEduLevels ==
    ("cbc" :> <<"Foundation">>) @@
    ("8-4-4" :> <<"Foundation", "Intermediate">>) @@
    ("graduate" :> <<"Foundation", "Intermediate", "Advanced">>) @@
    ("professional" :> <<"Foundation", "Intermediate", "Advanced", "Expert">>)

(* The fitted course text index: for a query, the cosine similarity        *)
(* (1 = 0.0001) of every row of the catalogue it was fitted on.            *)
CourseIndex(frame) ==
    [n_rows |-> Len(frame.rows),
     sims |->
        IF Len(frame.rows) = 2
        THEN ("skill programming" :> <<4567, 0>>) @@
             ("skill service" :> <<0, 0>>) @@
             ("skill writing" :> <<101, 100>>) @@
             ("python" :> <<6000, 0>>)
        ELSE ("skill programming" :> <<4567, 0, 7000, 8000>>) @@
             ("skill service" :> <<0, 6249, 0, 0>>) @@
             ("skill writing" :> <<101, 100, 0, 0>>) @@
             ("python" :> <<6000, 0, 0, 6000>>)]

NoIndex == [n_rows |-> 0, sims |-> EmptyDict]

(* skill_synonym_map.json *)
FileSynonyms == ("py" :> "python") @@ ("customer care" :> "help people")

(* cbc_subject_skills.json: pathway -> skill phrases *)
FileCbcSkills == ("STEM" :> <<"Python">>) @@ ("Arts" :> <<>>)

(* kcse_subject_skills.json: subject -> skill phrases *)
FileKcseSkills == ("Computer Studies" :> <<"py">>) @@ ("Home Science" :> <<"help people">>)

(* user_type_job_zones.json *)
FileJobZones ==
    ("cbc" :> {1, 2}) @@ ("8-4-4" :> {1, 2, 3}) @@ ("graduate" :> {3, 4, 5}) @@
    ("postgraduate" :> {5}) @@ ("professional" :> {})

(* career_goal_boosts.json, its "keywords" table: keyword -> families *)
FileGoalBoosts ==
    ("tech" :> {"Technology"}) @@ ("data" :> {"Technology", "Healthcare"}) @@
    ("health" :> {"Healthcare"})

(* career_ranker_gbm.pkl / skill_scaler.pkl: fitted on n_features columns; *)
(* the positive class probability (1 = 0.001) depends on the occupation's  *)
(* requirement vector only.                                                *)
RankerProba(vec) ==
    IF SeqSum(vec) = 0 THEN 100
    ELSE IF vec[1] >= 4000 THEN 900
    ELSE IF vec[1] > 0 THEN 650 ELSE 300

NoModel == [loaded |-> FALSE, n_features |-> 0]

FittedModel(n) == [loaded |-> TRUE, n_features |-> n]

(***************************************************************************)
(* The engine singleton.                                                   *)
(***************************************************************************)
(* CareerIntelligenceEngine.__init__ *)
Engine0 ==
    [is_loaded |-> FALSE, semantic_available |-> FALSE,
     occupation_count |-> 0, course_count |-> 0,
     master |-> NoFrame, courses |-> NoFrame,
     retriever |-> FALSE, ranker |-> NoModel, scaler |-> NoModel,
     st_model |-> FALSE, skill_dim_vecs |-> NoModel,
     SKILL_COLS |-> <<>>, CANONICAL_SKILLS |-> EmptyDict,
     SKILL_SYNONYM_MAP |-> EmptyDict, CBC_SUBJECT_SKILLS |-> EmptyDict,
     KCSE_SUBJECT_SKILLS |-> EmptyDict, USER_TYPE_JOB_ZONES |-> EmptyDict,
     CAREER_GOAL_BOOSTS |-> EmptyDict, SOC_FAMILY_MAP |-> FALSE,
     RISK_THRESHOLDS |-> <<>>, EDUCATION_COURSE_LEVELS |-> EmptyDict,
     course_tfidf |-> FALSE, course_matrix |-> NoIndex]

(***************************************************************************)
(* Loading.  Every artifact read has an outcome: "ok" (or "ok2", the file  *)
(* built from the two-dimension catalogue), "missing" (the exception class *)
(* the reading code catches: FileNotFoundError, ImportError for the        *)
(* sentence-transformers package) or "error" (any other exception: an      *)
(* unreadable file, an unusable location, a model that cannot be fetched). *)
(***************************************************************************)
TrainedOn(o) == IF o = "ok2" THEN FileMaster2 ELSE FileMaster3

DataArtifacts == <<"master", "courses">>

ModelArtifacts == <<"career_retriever", "career_ranker", "skill_scaler",
                    "skills_gap_engine", "ai_risk_engine", "course_recommender">>

ConfigArtifacts == <<"skill_synonym_map", "cbc_subject_skills", "kcse_subject_skills",
                     "user_type_job_zones", "career_goal_boosts", "soc_family_map",
                     "skill_dim_vectors">>

SemanticArtifacts == <<"sentence_transformers">>

(* _derive_skill_cols *)
DeriveSkillCols(e) == IF ~e.master.loaded THEN <<>> ELSE e.master.skill_columns

(* _build_course_tfidf *)
BuildCourseTfidf(e) ==
    IF ~e.courses.loaded \/ e.courses.rows = <<>> THEN e
    ELSE [e EXCEPT !.course_tfidf = TRUE, !.course_matrix = CourseIndex(e.courses)]

(* One try block of _load_data, _load_models, _load_artifacts or           *)
(* _load_semantic_model, for an outcome other than "error".                *)
LoadOne(e, name, o) ==
    LET ok == o \in {"ok", "ok2"} IN
    CASE name = "master" ->
            LET m == IF ok THEN TrainedOn(o) ELSE DemoMaster
            IN  [e EXCEPT !.master = m, !.occupation_count = Len(m.rows)]
      [] name = "courses" ->
            LET c == IF ok THEN FileCourses ELSE DemoCourses
            IN  [e EXCEPT !.courses = c, !.course_count = Len(c.rows)]
      [] name = "career_retriever" ->
            IF ok THEN [e EXCEPT !.retriever = TRUE] ELSE e
      [] name = "career_ranker" ->
            IF ok THEN [e EXCEPT !.ranker = FittedModel(Len(TrainedOn(o).skill_columns))]
            ELSE e
      [] name = "skill_scaler" ->
            IF ok THEN [e EXCEPT !.scaler = FittedModel(Len(TrainedOn(o).skill_columns))]
            ELSE e
      [] name = "skills_gap_engine" ->
            IF ok THEN [e EXCEPT !.SKILL_COLS = GapBundle(TrainedOn(o)).skill_cols,
                                 !.CANONICAL_SKILLS = GapBundle(TrainedOn(o)).canonical_skills]
            ELSE [e EXCEPT !.SKILL_COLS = DeriveSkillCols(e)]
      [] name = "ai_risk_engine" ->
            [e EXCEPT !.RISK_THRESHOLDS = DefaultRiskThresholds]
      [] name = "course_recommender" ->
            IF ok THEN [e EXCEPT !.course_tfidf = TRUE,
                                 !.course_matrix = CourseIndex(FileCourses),
                                 !.EDUCATION_COURSE_LEVELS = BundleEduLevels]
            ELSE [BuildCourseTfidf(e) EXCEPT !.EDUCATION_COURSE_LEVELS = DefaultEduLevels]
      [] name = "skill_synonym_map" ->
            IF ok THEN [e EXCEPT !.SKILL_SYNONYM_MAP = FileSynonyms] ELSE e
      [] name = "cbc_subject_skills" ->
            IF ok THEN [e EXCEPT !.CBC_SUBJECT_SKILLS = FileCbcSkills] ELSE e
      [] name = "kcse_subject_skills" ->
            IF ok THEN [e EXCEPT !.KCSE_SUBJECT_SKILLS = FileKcseSkills] ELSE e
      [] name = "user_type_job_zones" ->
            IF ok THEN [e EXCEPT !.USER_TYPE_JOB_ZONES = FileJobZones] ELSE e
      [] name = "career_goal_boosts" ->
            IF ok THEN [e EXCEPT !.CAREER_GOAL_BOOSTS = FileGoalBoosts] ELSE e
      [] name = "soc_family_map" ->
            IF ok THEN [e EXCEPT !.SOC_FAMILY_MAP = TRUE] ELSE e
      [] name = "skill_dim_vectors" ->
            IF ok THEN [e EXCEPT !.skill_dim_vecs = FittedModel(Len(TrainedOn(o).skill_columns))]
            ELSE e
      [] OTHER ->
            IF ok THEN [e EXCEPT !.st_model = TRUE, !.semantic_available = TRUE] ELSE e

(* A phase of load(): its try blocks in order.  An outcome "error" is not  *)
(* caught: the phase stops there and the exception leaves load().          *)
RECURSIVE LoadPhase(_, _, _)
LoadPhase(e, names, out) ==
    IF names = <<>> THEN [engine |-> e, raised |-> FALSE]
    ELSE IF out[Head(names)] = "error" THEN [engine |-> e, raised |-> TRUE]
    ELSE LoadPhase(LoadOne(e, Head(names), out[Head(names)]), Tail(names), out)

AllArtifacts == DataArtifacts \o ModelArtifacts \o ConfigArtifacts \o SemanticArtifacts

(* load(): the four phases, then is_loaded = True *)
LoadAll(e, out) ==
    LET r == LoadPhase(e, AllArtifacts, out)
    IN  IF r.raised THEN r.engine ELSE [r.engine EXCEPT !.is_loaded = TRUE]

(***************************************************************************)
(* Text.  Strings are atoms; the string operations the engine applies are  *)
(* tables over the vocabulary of the model.                                *)
(***************************************************************************)
(* s.lower().strip() *)
LowerStrip(s) ==
    CASE s = "Python" -> "python"
      [] s = " Py"    -> "py"
      [] s = " "      -> ""
      [] OTHER        -> s

(* s.split() *)
Words(s) ==
    CASE s = ""              -> <<>>
      [] s = "help people"   -> <<"help", "people">>
      [] s = "customer care" -> <<"customer", "care">>
      [] OTHER               -> <<s>>

(* a in b for two words: a is a substring of b *)
IsSubstr(a, b) ==
    \/ a = b
    \/ <<a, b>> \in { <<"py", "python">>, <<"program", "programs">>,
                      <<"writ", "writing">> }

(* w in desc, desc a text given as its list of words *)
WordIn(w, desc) == \E i \in DOMAIN desc : IsSubstr(w, desc[i])

(* skill in desc for a phrase: its words occur in a row *)
PhraseIn(skill, desc) ==
    LET ws == Words(skill) IN
    /\ ws # <<>>
    /\ \E k \in 0..(Len(desc) - Len(ws)) :
          \A j \in DOMAIN ws :
             IF Len(ws) = 1 THEN IsSubstr(ws[j], desc[k + j]) ELSE ws[j] = desc[k + j]

(* normalise_skill *)
normalise_skill(e, skill) ==
    DictGet(e.SKILL_SYNONYM_MAP, LowerStrip(skill), LowerStrip(skill))

RECURSIVE NormaliseAll(_, _)
NormaliseAll(e, raw) ==
    IF raw = <<>> THEN <<>>
    ELSE IF LowerStrip(Head(raw)) = "" THEN NormaliseAll(e, Tail(raw))
    ELSE <<normalise_skill(e, Head(raw))>> \o NormaliseAll(e, Tail(raw))

RECURSIVE NormaliseEach(_, _)
NormaliseEach(e, raw) ==
    IF raw = <<>> THEN <<>>
    ELSE <<normalise_skill(e, Head(raw))>> \o NormaliseEach(e, Tail(raw))

RECURSIVE KcseSkills(_, _)
KcseSkills(e, subjects) ==
    IF subjects = <<>> THEN <<>>
    ELSE NormaliseEach(e, DictGet(e.KCSE_SUBJECT_SKILLS, Head(subjects), <<>>))
         \o KcseSkills(e, Tail(subjects))

(* raw.nulls names the fields of the request whose value is None (the     *)
(* value model_dump() gives an optional field that was not supplied)       *)
IsNull(raw, field) == "nulls" \in DOMAIN raw /\ field \in raw.nulls

(* line 370: raw_input.get("subject_combination", "") returns the None of  *)
(* a key that is present, and None.split raises AttributeError             *)
ExplicitRaises(raw) ==
    raw.user_type = "8-4-4" /\ IsNull(raw, "subject_combination")

(* parse_user_skills, lines 358-372: the explicit, soft and track-implied  *)
(* phrases.  raw.skills, raw.soft_skills and raw.subject_combination are   *)
(* the comma separated items of the request's strings.                     *)
Explicit(e, raw) ==
    NormaliseAll(e, raw.skills) \o NormaliseAll(e, raw.soft_skills) \o
    ( IF raw.user_type = "cbc"
      THEN IF IsNull(raw, "pathway") THEN <<>>
           ELSE NormaliseEach(e, DictGet(e.CBC_SUBJECT_SKILLS, raw.pathway, <<>>))
      ELSE IF raw.user_type = "8-4-4" /\ ~IsNull(raw, "subject_combination")
      THEN KcseSkills(e, raw.subject_combination)
      ELSE <<>> )

(* the semantic branch is taken (line 378) *)
SemanticMode(e, explicit) ==
    e.semantic_available /\ e.skill_dim_vecs.loaded /\ e.st_model /\ explicit # <<>>

(* np.argsort(row)[::-1][:3]: the indices of the three largest entries,    *)
(* largest first; among equal entries the later index comes first (the    *)
(* reverse of a stable ascending sort).                                    *)
RECURSIVE ArgsortDesc(_, _)
ArgsortDesc(row, idx) ==
    IF idx = {} THEN <<>>
    ELSE LET best == CHOOSE i \in idx :
                        \A j \in idx : row[i] > row[j] \/ (row[i] = row[j] /\ i >= j)
         IN  <<best>> \o ArgsortDesc(row, idx \ {best})

Top3(row) == SubSeq(ArgsortDesc(row, DOMAIN row), 1, Min(3, Len(row)))

RankWeight(rank) == IF rank = 1 THEN 10 ELSE IF rank = 2 THEN 6 ELSE 3

(* lines 384-388: one phrase's similarity row added to its top dimensions  *)
RECURSIVE AddRanks(_, _, _, _, _)
AddRanks(cols, scores, row, top, rank) ==
    IF rank > Len(top) THEN scores
    ELSE LET col == cols[top[rank]]
             add == row[top[rank]] * RankWeight(rank) * 7 * 10
         IN  AddRanks(cols, [scores EXCEPT ![col] = Min(7000, scores[col] + add)],
                      row, top, rank + 1)

(* lines 382-388 *)
RECURSIVE SemanticScores(_, _, _, _)
SemanticScores(cols, scores, sims, i) ==
    IF i > Len(sims) THEN scores
    ELSE SemanticScores(cols, AddRanks(cols, scores, sims[i], Top3(sims[i]), 1),
                        sims, i + 1)

(* SKILL_COLS[dim_idx] raises IndexError: a selected reference embedding   *)
(* has no skill column                                                     *)
SemanticRaises(e, sims) ==
    \E i \in DOMAIN sims : \E r \in DOMAIN Top3(sims[i]) :
        Top3(sims[i])[r] > Len(e.SKILL_COLS)

(* line 392-394: the phrase or one of its words occurs in the description  *)
KeywordMatch(skill, desc) ==
    PhraseIn(skill, desc) \/ \E k \in DOMAIN Words(skill) : WordIn(Words(skill)[k], desc)

(* lines 390-395 *)
RECURSIVE KeywordScores(_, _, _)
KeywordScores(e, scores, explicit) ==
    IF explicit = <<>> THEN scores
    ELSE KeywordScores(e,
            [c \in DOMAIN scores |->
                IF c \in DOMAIN e.CANONICAL_SKILLS
                   /\ KeywordMatch(Head(explicit), e.CANONICAL_SKILLS[c])
                THEN Min(7000, scores[c] + 2500) ELSE scores[c]],
            Tail(explicit))

ZeroScores(e) == [c \in Range(e.SKILL_COLS) |-> 0]

(* parse_user_skills.  raw.sims is what the encoder and cosine_similarity  *)
(* give for the explicit phrases: one row per phrase, one entry per        *)
(* reference embedding.                                                    *)
parse_user_skills(e, raw) ==
    LET explicit == Explicit(e, raw) IN
    IF ExplicitRaises(raw) THEN [raised |-> TRUE, scores |-> ZeroScores(e)]
    ELSE IF e.SKILL_COLS = <<>> THEN [raised |-> FALSE, scores |-> ZeroScores(e)]
    ELSE IF SemanticMode(e, explicit)
    THEN IF SemanticRaises(e, raw.sims) THEN [raised |-> TRUE, scores |-> ZeroScores(e)]
         ELSE [raised |-> FALSE,
               scores |-> SemanticScores(e.SKILL_COLS, ZeroScores(e), raw.sims, 1)]
    ELSE [raised |-> FALSE, scores |-> KeywordScores(e, ZeroScores(e), explicit)]

(***************************************************************************)
(* Requests.  pending is the request being handled (op "none": idle),      *)
(* resp the response of the handler (op "none": not produced yet).         *)
(***************************************************************************)
NoReq == [op |-> "none"]

NoResp == [op |-> "none"]

Idle == pending.op = "none" /\ resp.op = "none"

(* the response has been sent: the handling context is gone *)
Reply ==
    /\ resp.op # "none"
    /\ pending' = NoReq
    /\ resp' = NoResp
    /\ UNCHANGED <<engine, loadPc>>

(* engines after a load() in which every artifact is readable except the   *)
(* ones named in absent, which are missing                                 *)
LoadedWith(absent) ==
    LoadAll(Engine0, [a \in Range(AllArtifacts) |-> IF a \in absent THEN "missing" ELSE "ok"])

(* sequences over S of length at most n *)
SeqUpTo(S, n) == UNION { [1..k -> S] : k \in 0..n }

(***************************************************************************)
(* Specification SpecParse: parse_user_skills applied to a request.        *)
(***************************************************************************)
(* engines whose reference embeddings were computed for another skill      *)
(* dimension list than the catalogue's and the gap bundle's                *)
StaleEmbeddingEngines ==
    { LoadAll(Engine0,
              [a \in Range(AllArtifacts) |->
                 IF a \in absent THEN "missing"
                 ELSE IF a = "skill_dim_vectors" THEN "ok" ELSE "ok2"]) :
        absent \in SUBSET {"skill_synonym_map"} }

ParseEngines ==
    { LoadedWith(absent) :
        absent \in SUBSET {"sentence_transformers", "skill_dim_vectors",
                           "skills_gap_engine", "skill_synonym_map"} }
    \cup StaleEmbeddingEngines

RawSkillItems == {"Python", " Py", "help people", "cooking", " "}

SimValues == {-5, 10}

RawTexts ==
    { [user_type |-> t[1], pathway |-> t[2], subject_combination |-> t[3],
       nulls |-> t[4], skills |-> sk, soft_skills |-> so, career_goals |-> ""] :
        t \in { <<"cbc", "", <<"">>, {} >>, <<"cbc", "STEM", <<"">>, {} >>,
                <<"cbc", "", <<"">>, {"pathway", "subject_combination"} >>,
                <<"8-4-4", "", <<"">>, {} >>, <<"8-4-4", "", <<"Computer Studies">>, {} >>,
                <<"8-4-4", "", <<"">>, {"pathway", "subject_combination"} >>,
                <<"graduate", "", <<"">>, {} >> },
        sk \in SeqUpTo(RawSkillItems, MaxPhrases),
        so \in { <<>>, <<"customer care">> } }

(* the similarity rows the encoder can give for the phrases of a request   *)
SimRows(e, raw, values) ==
    IF SemanticMode(e, Explicit(e, raw))
    THEN [1..Len(Explicit(e, raw)) -> [1..e.skill_dim_vecs.n_features -> values]]
    ELSE { <<>> }

InitParse ==
    /\ engine \in ParseEngines
    /\ loadPc = "done"
    /\ pending = NoReq
    /\ resp = NoResp

ArriveParse ==
    /\ Idle
    /\ \E raw \in RawTexts : \E sims \in SimRows(engine, raw, SimValues) :
          pending' = [op |-> "parse_user_skills", raw |-> raw @@ [sims |-> sims]]
    /\ UNCHANGED <<engine, loadPc, resp>>

DoParse ==
    /\ pending.op = "parse_user_skills"
    /\ resp.op = "none"
    /\ resp' = [op |-> "parse_user_skills",
                result |-> parse_user_skills(engine, pending.raw)]
    /\ UNCHANGED <<engine, loadPc, pending>>

NextParse == ArriveParse \/ DoParse \/ Reply

SpecParse == InitParse /\ [][NextParse]_vars

(* C1: every score of the mapping returned by parse_user_skills lies in    *)
(* [0,7], in the semantic mode and in the keyword fallback.                *)
C1_ScoresWithinRange ==
    (resp.op = "parse_user_skills" /\ ~resp.result.raised) =>
        \A c \in DOMAIN resp.result.scores :
            resp.result.scores[c] >= 0 /\ resp.result.scores[c] <= 7000

SemanticStepRaises ==
    /\ resp.op = "parse_user_skills"
    /\ SemanticMode(engine, Explicit(engine, pending.raw))
    /\ SemanticRaises(engine, pending.raw.sims)

(* C14: when the encoder is loaded and the semantic step raises (the       *)
(* encoder call or the similarity/indexing step against the reference      *)
(* embeddings), parse_user_skills does not fail and returns the scores of  *)
(* the keyword-overlap fallback.                                           *)
C14_SemanticErrorFallsBack ==
    SemanticStepRaises =>
        /\ ~resp.result.raised
        /\ resp.result.scores =
              KeywordScores(engine, ZeroScores(engine), Explicit(engine, pending.raw))

(* What holds: the keyword fallback is what is computed whenever the       *)
(* phrases of the request could be read and the semantic branch is not     *)
(* taken.                                                                  *)
C14_KeywordWhenNotSemantic ==
    (resp.op = "parse_user_skills" /\ engine.SKILL_COLS # <<>>
        /\ ~ExplicitRaises(pending.raw)
        /\ ~SemanticMode(engine, Explicit(engine, pending.raw))) =>
        /\ ~resp.result.raised
        /\ resp.result.scores =
              KeywordScores(engine, ZeroScores(engine), Explicit(engine, pending.raw))

Parsed == resp.op = "parse_user_skills"

(* the track-specific field of the request's user type is not supplied:    *)
(* the key is absent (read as the empty string) or its value is None       *)
TrackFieldNotSupplied ==
    \/ /\ pending.raw.user_type = "cbc"
       /\ (pending.raw.pathway = "" \/ IsNull(pending.raw, "pathway"))
    \/ /\ pending.raw.user_type = "8-4-4"
       /\ (pending.raw.subject_combination = <<"">>
              \/ IsNull(pending.raw, "subject_combination"))

(* the scores of the request's explicit and soft skills alone: those of    *)
(* the same request from a user type without a track                       *)
ScoresWithoutTrack ==
    parse_user_skills(engine, [pending.raw EXCEPT !.user_type = "graduate"]).scores

(* C28: for a CBC user without (absent or null) pathway and an 8-4-4 user  *)
(* without (absent or null) subject_combination, parse_user_skills does    *)
(* not raise and returns the vector of the explicit and soft skills alone. *)
C28_TrackFieldOptional ==
    (Parsed /\ TrackFieldNotSupplied /\ ~SemanticStepRaises) =>
        /\ ~resp.result.raised
        /\ resp.result.scores = ScoresWithoutTrack

(* What holds: the same when the field is absent, and for a CBC user also  *)
(* when the pathway is null.                                               *)
C28_TrackFieldAbsent ==
    (Parsed /\ TrackFieldNotSupplied /\ ~SemanticStepRaises
        /\ ~(pending.raw.user_type = "8-4-4"
               /\ IsNull(pending.raw, "subject_combination"))) =>
        /\ ~resp.result.raised
        /\ resp.result.scores = ScoresWithoutTrack

(* a CBC request with a null pathway that gets scores from its skills *)
C28_NullPathwayParsed ==
    /\ Parsed
    /\ pending.raw.user_type = "cbc"
    /\ IsNull(pending.raw, "pathway")
    /\ ~resp.result.raised
    /\ \E c \in DOMAIN resp.result.scores : resp.result.scores[c] > 0

(***************************************************************************)
(* Risk categoriser.                                                       *)
(***************************************************************************)
(* a categoriser whose intervals are open below and closed above *)
RECURSIVE CategoriseClosedAbove(_, _)
CategoriseClosedAbove(thresholds, score) ==
    IF thresholds = <<>> THEN "Very High"
    ELSE IF Head(thresholds).lo < score /\ score <= Head(thresholds).hi
         THEN Head(thresholds).label
         ELSE CategoriseClosedAbove(Tail(thresholds), score)

(* categorise_risk: the first interval lo <= score < hi in dict order,     *)
(* "Very High" when none matches                                           *)
RECURSIVE CategoriseIn(_, _)
CategoriseIn(thresholds, score) ==
    IF thresholds = <<>> THEN "Very High"
    ELSE IF Head(thresholds).lo <= score /\ score < Head(thresholds).hi
         THEN Head(thresholds).label
         ELSE CategoriseIn(Tail(thresholds), score)

categorise_risk(e, score) == CategoriseIn(e.RISK_THRESHOLDS, score)

(***************************************************************************)
(* Specification SpecRisk: categorise_risk applied to a score.             *)
(***************************************************************************)
RiskEngines == { LoadedWith(absent) : absent \in SUBSET {"ai_risk_engine"} }

(* scores from -1.0 to 2.0: every hundredth, and the thousandths next to   *)
(* the thresholds                                                          *)
RiskScores ==
    { s \in -1000..2000 : s % 10 = 0 } \cup
    { t + d : t \in {0, 350, 550, 720, 1000}, d \in {-1, 1} }

InitRisk ==
    /\ engine \in RiskEngines
    /\ loadPc = "done"
    /\ pending = NoReq
    /\ resp = NoResp

ArriveRisk ==
    /\ Idle
    /\ \E s \in RiskScores : pending' = [op |-> "categorise_risk", score |-> s]
    /\ UNCHANGED <<engine, loadPc, resp>>

DoRisk ==
    /\ pending.op = "categorise_risk"
    /\ resp.op = "none"
    /\ resp' = [op |-> "categorise_risk", label |-> categorise_risk(engine, pending.score)]
    /\ UNCHANGED <<engine, loadPc, pending>>

NextRisk == ArriveRisk \/ DoRisk \/ Reply

SpecRisk == InitRisk /\ [][NextRisk]_vars

RiskRank(label) ==
    CASE label = "Low" -> 0 [] label = "Medium" -> 1 [] label = "High" -> 2
      [] label = "Very High" -> 3 [] OTHER -> 4

UnitScores == { s \in RiskScores : 0 <= s /\ s <= 1000 }

(* C8: over scores in [0,1] the label never decreases as the score grows   *)
(* (Low < Medium < High < Very High), the label of a score is one of the   *)
(* four, at most one configured interval holds the score, and the          *)
(* boundaries 0.35, 0.55, 0.72 and 1.0 open Medium, High, Very High and    *)
(* Very High.                                                              *)
C8_RiskMonotonic ==
    (resp.op = "categorise_risk" /\ pending.score \in UnitScores) =>
        /\ RiskRank(resp.label) <= 3
        /\ \A t \in UnitScores :
              t <= pending.score =>
                 RiskRank(categorise_risk(engine, t)) <= RiskRank(resp.label)
        /\ Cardinality({ i \in DOMAIN engine.RISK_THRESHOLDS :
                            /\ engine.RISK_THRESHOLDS[i].lo <= pending.score
                            /\ pending.score < engine.RISK_THRESHOLDS[i].hi }) <= 1
        /\ (pending.score = 350 => resp.label = "Medium")
        /\ (pending.score = 550 => resp.label = "High")
        /\ (pending.score \in {720, 1000} => resp.label = "Very High")

C8_Witness ==
    /\ resp.op = "categorise_risk"
    /\ pending.score = 1000
    /\ resp.label = "Very High"

(* C9: a score below 0 gets the label of score 0, a score above 1 gets     *)
(* "Very High".                                                            *)
C9_RiskClamped ==
    resp.op = "categorise_risk" =>
        /\ (pending.score < 0 => resp.label = categorise_risk(engine, 0))
        /\ (pending.score > 1000 => resp.label = "Very High")

(***************************************************************************)
(* Gap analyser.                                                           *)
(***************************************************************************)
(* the indices of keys by descending key, equal keys in their order:       *)
(* list.sort(reverse=True), sorted(reverse=True), nlargest(keep="first")   *)
RECURSIVE StableArgsortDesc(_, _)
StableArgsortDesc(keys, idx) ==
    IF idx = {} THEN <<>>
    ELSE LET best == CHOOSE i \in idx :
                        \A j \in idx : keys[i] > keys[j] \/ (keys[i] = keys[j] /\ i <= j)
         IN  <<best>> \o StableArgsortDesc(keys, idx \ {best})

Permute(s, order) == [k \in DOMAIN order |-> s[order[k]]]

RECURSIVE SelectSeq2(_, _)
SelectSeq2(s, keep) ==
    IF s = <<>> THEN <<>>
    ELSE IF Head(s) \in keep THEN <<Head(s)>> \o SelectSeq2(Tail(s), keep)
    ELSE SelectSeq2(Tail(s), keep)

FirstN(s, n) == SubSeq(s, 1, Min(n, Len(s)))

(* occupation_row.get(c, 0) *)
RowGet(row, c) == DictGet(row.req, c, 0)

(* lines 522-534: the requirement of every skill column and their sum, 1.0 *)
(* when the sum is 0                                                       *)
RawScores(e, row) == [i \in DOMAIN e.SKILL_COLS |-> RowGet(row, e.SKILL_COLS[i])]

ImpTotal(e, row) == IF SeqSum(RawScores(e, row)) = 0 THEN 1000 ELSE SeqSum(RawScores(e, row))

(* lines 537-555: one record per skill column; required, current and gap   *)
(* rounded to 2 decimals (1 = 0.01), importance and weighted_gap to 4      *)
(* (1 = 0.0001)                                                            *)
GapDetail(e, user, row, col) ==
    LET required == RowGet(row, col)
        current  == DictGet(user, col, 0)
        gap      == Max(0, required - current)
    IN  [col          |-> col,
         required     |-> RoundDiv(required, 10),
         current      |-> RoundDiv(current, 10),
         gap          |-> RoundDiv(gap, 10),
         importance   |-> RoundDiv(required * 10000, ImpTotal(e, row)),
         weighted_gap |-> RoundDiv(gap * required * 10, ImpTotal(e, row))]

(* line 557 *)
GapDetails(e, user, row) ==
    LET unsorted == [i \in DOMAIN e.SKILL_COLS |-> GapDetail(e, user, row, e.SKILL_COLS[i])]
        keys     == [i \in DOMAIN unsorted |-> unsorted[i].weighted_gap]
    IN  Permute(unsorted, StableArgsortDesc(keys, DOMAIN keys))

(* a gap list that also keeps the dimensions without a gap *)
TopGapsInclusive(details, top_n_gaps) ==
    FirstN(SelectSeq2(details, { g \in Range(details) : g.gap >= 0 }), top_n_gaps)

(* line 559 *)
TopGaps(details, top_n_gaps) ==
    FirstN(SelectSeq2(details, { g \in Range(details) : g.gap > 0 }), top_n_gaps)

(* lines 560-563 *)
TopStrengths(details, top_n_strong) ==
    LET strong == SelectSeq2(details,
                     { g \in Range(details) : g.current >= g.required /\ g.required > 0 })
        keys   == [i \in DOMAIN strong |-> strong[i].current]
    IN  FirstN(Permute(strong, StableArgsortDesc(keys, DOMAIN keys)), top_n_strong)

(* lines 565-574: max_gap = sum of required * importance, kept unrounded   *)
(* as the fraction MaxGapNum / (10 * ImpTotal) in units of 0.0001;         *)
(* actual_gap, the sum of the rounded weighted gaps (1 = 0.0001); and the  *)
(* alignment round((1 - actual_gap / max(max_gap, 1e-6)) * 100, 1)         *)
(* (1 = 0.1 %) clamped to [0, 100].  A catalogue row whose requirements    *)
(* are all zero has max_gap = 0 and the 1e-6 floor applies.                *)
MaxGapNum(e, row) ==
    LET raw == RawScores(e, row)
    IN  SeqSum([i \in DOMAIN raw |-> raw[i] * raw[i]]) * 10

ActualGap(details) ==
    SeqSum([i \in DOMAIN details |-> details[i].weighted_gap])

AlignmentOf(num, actual_gap, total) ==
    LET short == num - actual_gap * total
    IN  IF num = 0 THEN (IF actual_gap = 0 THEN 1000 ELSE 0)
        ELSE IF short <= 0 THEN 0
        ELSE Min(1000, MulDivRound(1000, Min(short, num), num))

Alignment(e, details, row) ==
    AlignmentOf(MaxGapNum(e, row), ActualGap(details), ImpTotal(e, row))

(* analyse_skills_gap *)
analyse_skills_gap(e, user, row, top_n_gaps, top_n_strong) ==
    LET details == GapDetails(e, user, row)
    IN  [occupation    |-> row.occupation,
         alignment_pct |-> Alignment(e, details, row),
         top_gaps      |-> TopGaps(details, top_n_gaps),
         top_strengths |-> TopStrengths(details, top_n_strong),
         total_dims    |-> Len(e.SKILL_COLS)]

(***************************************************************************)
(* Specification SpecGap: analyse_skills_gap applied to a user vector and  *)
(* an occupation row of the catalogue.                                     *)
(***************************************************************************)
GapEngines == { LoadedWith(absent) : absent \in SUBSET {"skills_gap_engine"} }

GapScoreValues == {0, 1000, 2000, 2996, 3000, 5000}

GapUsers(e) == [Range(e.SKILL_COLS) -> GapScoreValues]

InitGap ==
    /\ engine \in GapEngines
    /\ loadPc = "done"
    /\ pending = NoReq
    /\ resp = NoResp

ArriveGap ==
    /\ Idle
    /\ \E user \in GapUsers(engine), r \in DOMAIN engine.master.rows,
          n \in 1..MaxTopN, m \in {1, 5} :
          pending' = [op |-> "analyse_skills_gap", user |-> user, row |-> r,
                      top_n_gaps |-> n, top_n_strong |-> m]
    /\ UNCHANGED <<engine, loadPc, resp>>

DoGap ==
    /\ pending.op = "analyse_skills_gap"
    /\ resp.op = "none"
    /\ resp' = [op |-> "analyse_skills_gap",
                result |-> analyse_skills_gap(engine, pending.user,
                              engine.master.rows[pending.row],
                              pending.top_n_gaps, pending.top_n_strong)]
    /\ UNCHANGED <<engine, loadPc, pending>>

NextGap == ArriveGap \/ DoGap \/ Reply

SpecGap == InitGap /\ [][NextGap]_vars

(* the user vector of the request equals the occupation's requirement on   *)
(* every skill dimension                                                   *)
UserEqualsRequirement ==
    \A c \in Range(engine.SKILL_COLS) :
        pending.user[c] = RowGet(engine.master.rows[pending.row], c)

(* C10: a user vector equal to the occupation's requirement vector gets    *)
(* alignment_pct = 100.0 and no top gap, also for an occupation without    *)
(* requirements.                                                           *)
C10_ExactMatchFullyAligned ==
    (resp.op = "analyse_skills_gap" /\ UserEqualsRequirement) =>
        /\ resp.result.alignment_pct = 1000
        /\ resp.result.top_gaps = <<>>

C10_Witness ==
    /\ resp.op = "analyse_skills_gap"
    /\ UserEqualsRequirement
    /\ \E c \in Range(engine.SKILL_COLS) : pending.user[c] > 0
    /\ resp.result.alignment_pct = 1000

UserAllZero == \A c \in Range(engine.SKILL_COLS) : pending.user[c] = 0

SomeRequirement ==
    \E c \in Range(engine.SKILL_COLS) : RowGet(engine.master.rows[pending.row], c) > 0

(* C11: an all-zero user vector against an occupation with at least one    *)
(* non-zero skill requirement gets alignment_pct = 0.0.                     *)
C11_ZeroUserZeroAlignment ==
    (resp.op = "analyse_skills_gap" /\ UserAllZero /\ SomeRequirement) =>
        resp.result.alignment_pct = 0

(* The same for occupations whose weighted gaps are multiples of 0.0001,   *)
(* so that rounding them to 4 decimals before summing loses nothing.       *)
WeightedGapsExact ==
    LET row == engine.master.rows[pending.row]
    IN  \A c \in Range(engine.SKILL_COLS) :
            (RowGet(row, c) * RowGet(row, c) * 10) % ImpTotal(engine, row) = 0

C11_ZeroUserZeroAlignmentExact ==
    (resp.op = "analyse_skills_gap" /\ UserAllZero /\ SomeRequirement
        /\ WeightedGapsExact) =>
        resp.result.alignment_pct = 0

C11_ScenarioReached ==
    /\ resp.op = "analyse_skills_gap"
    /\ UserAllZero
    /\ SomeRequirement

Analysed == resp.op = "analyse_skills_gap"

(* the occupation's requirement and the user's score on a dimension, and   *)
(* the gap between them (1 = 0.001)                                        *)
RequiredOf(c) == RowGet(engine.master.rows[pending.row], c)

CurrentOf(c) == pending.user[c]

GapOf(c) == Max(0, RequiredOf(c) - CurrentOf(c))

(* max(0, required - current) * importance, to 4 decimals (1 = 0.0001),    *)
(* importance being the requirement over the sum of the requirements      *)
WeightedGapOf(c) ==
    LET total == SeqSum([i \in DOMAIN engine.SKILL_COLS |->
                            RequiredOf(engine.SKILL_COLS[i])])
    IN  IF total = 0 THEN 0 ELSE RoundDiv(GapOf(c) * RequiredOf(c) * 10, total)

(* top_gaps is the first top_n_gaps dimensions of S by descending          *)
(* weighted gap                                                            *)
TopGapsAmong(S) ==
    LET top  == resp.result.top_gaps
        cols == { top[k].col : k \in DOMAIN top }
    IN  /\ Len(top) = Min(pending.top_n_gaps, Cardinality(S))
        /\ Cardinality(cols) = Len(top)
        /\ cols \subseteq S
        /\ \A k \in DOMAIN top :
              /\ top[k].weighted_gap = WeightedGapOf(top[k].col)
              /\ \A l \in DOMAIN top : k < l => top[k].weighted_gap >= top[l].weighted_gap
              /\ \A c \in S \ cols : top[k].weighted_gap >= WeightedGapOf(c)

(* C27: top_gaps is exactly the first top_n_gaps dimensions, in descending *)
(* weighted_gap order, among all dimensions whose required score exceeds   *)
(* the user's current score: every dimension with a positive gap is        *)
(* included when there are at most top_n_gaps of them, and no dimension    *)
(* with zero gap is included.                                              *)
C27_TopGapsArePositiveGaps ==
    Analysed =>
        TopGapsAmong({ c \in Range(engine.SKILL_COLS) : RequiredOf(c) > CurrentOf(c) })

(* What holds: the same among the dimensions whose gap, rounded to two     *)
(* decimals, is positive.                                                  *)
C27_TopGapsAreReportedGaps ==
    Analysed =>
        TopGapsAmong({ c \in Range(engine.SKILL_COLS) : RoundDiv(GapOf(c), 10) > 0 })

(* a requirement above the user's score by less than 0.005 next to a       *)
(* reported gap, with room left in top_gaps                                *)
C27_SmallGapLeftOut ==
    /\ Analysed
    /\ \E c \in Range(engine.SKILL_COLS) : GapOf(c) > 0 /\ RoundDiv(GapOf(c), 10) = 0
    /\ resp.result.top_gaps # <<>>
    /\ Len(resp.result.top_gaps) < pending.top_n_gaps

(* more reported gaps than top_n_gaps: the list is cut *)
C27_TruncationReached ==
    /\ Analysed
    /\ Len(resp.result.top_gaps) = pending.top_n_gaps
    /\ Cardinality({ c \in Range(engine.SKILL_COLS) : RoundDiv(GapOf(c), 10) > 0 })
          > pending.top_n_gaps

ReportedGapCols == { resp.result.top_gaps[k].col : k \in DOMAIN resp.result.top_gaps }

StrengthCols == { resp.result.top_strengths[k].col : k \in DOMAIN resp.result.top_strengths }

(* C29: in every gap report no skill dimension appears in both top_gaps    *)
(* and top_strengths, for all requirement and user scores, including ones  *)
(* that differ by less than the two-decimal rounding of the reported       *)
(* values.                                                                 *)
C29_GapsAndStrengthsDisjoint ==
    Analysed => ReportedGapCols \cap StrengthCols = {}

(* What holds: the two lists are disjoint when the requirements and the    *)
(* user's scores are multiples of 0.01, which rounding leaves unchanged.   *)
C29_DisjointForTwoDecimalScores ==
    (Analysed /\ \A c \in Range(engine.SKILL_COLS) :
                    RequiredOf(c) % 10 = 0 /\ CurrentOf(c) % 10 = 0) =>
        ReportedGapCols \cap StrengthCols = {}

(* a report with a gap and a strength on different dimensions *)
C29_BothListsReached ==
    /\ Analysed
    /\ \A c \in Range(engine.SKILL_COLS) : RequiredOf(c) % 10 = 0 /\ CurrentOf(c) % 10 = 0
    /\ ReportedGapCols # {}
    /\ StrengthCols # {}

(***************************************************************************)
(* Career ranker.  A data frame derived from the catalogue is a sequence   *)
(* of records [idx, has_score, score]: idx is the row's index in master.   *)
(***************************************************************************)
AllZones == {1, 2, 3, 4, 5}

RECURSIVE FilterIdx(_, _, _)
FilterIdx(rows, i, zones) ==
    IF i > Len(rows) THEN <<>>
    ELSE IF rows[i].job_zone \in zones THEN <<i>> \o FilterIdx(rows, i + 1, zones)
    ELSE FilterIdx(rows, i + 1, zones)

(* a zone filter that does not fall back to the whole catalogue *)
CandidatesNoFallback(e, user_type) ==
    LET allowed_zones == DictGet(e.USER_TYPE_JOB_ZONES, user_type, AllZones)
    IN  IF allowed_zones # {} THEN FilterIdx(e.master.rows, 1, allowed_zones)
        ELSE [i \in DOMAIN e.master.rows |-> i]

(* lines 405-410: the rows whose job_zone is allowed, all rows when the    *)
(* allowed list is empty or no row passes                                  *)
Candidates(e, user_type) ==
    LET allowed_zones == DictGet(e.USER_TYPE_JOB_ZONES, user_type, AllZones)
        all           == [i \in DOMAIN e.master.rows |-> i]
        df            == IF allowed_zones # {}
                         THEN FilterIdx(e.master.rows, 1, allowed_zones) ELSE all
    IN  IF df = <<>> THEN all ELSE df

(* the career-goal keywords that occur in a goal text (keyword in text) *)
KeywordsIn(career_goals) ==
    CASE career_goals = "work in technology and data science" -> {"tech", "data"}
      [] career_goals = "health"                              -> {"health"}
      [] OTHER                                                -> {}

(* sklearn normalize: the vector scaled to length 1 (1 = 0.0001), a zero   *)
(* vector stays zero                                                       *)
Normalized(v) ==
    LET norm == Isqrt(SeqSum([i \in DOMAIN v |-> v[i] * v[i]]))
    IN  [i \in DOMAIN v |-> IF norm = 0 THEN 0 ELSE RoundDiv(v[i] * 10000, norm)]

(* sklearn cosine_similarity of two vectors (1 = 0.001) *)
cosine_similarity(u, v) ==
    LET un == Normalized(u)
        vn == Normalized(v)
    IN  RoundDiv(SeqSum([i \in DOMAIN u |-> un[i] * vn[i]]), 100000)

(* the row's skill values in the catalogue's own column order *)
SkillVectorInFileOrder(e, row) ==
    [i \in DOMAIN e.SKILL_COLS |-> RowGet(row, e.master.skill_columns[i])]

(* df[SKILL_COLS].fillna(0).values for one row *)
SkillVector(e, row) == [i \in DOMAIN e.SKILL_COLS |-> RowGet(row, e.SKILL_COLS[i])]

(* career_goals.lower(), line 403 *)
LowerGoals(career_goals) ==
    IF career_goals = "Health" THEN "health" ELSE career_goals

(* a bonus that does not accumulate over keywords *)
GoalBoostOnce(e, career_goals, row) ==
    IF \E k \in DOMAIN e.CAREER_GOAL_BOOSTS :
          k \in KeywordsIn(career_goals) /\ row.career_family \in e.CAREER_GOAL_BOOSTS[k]
    THEN 50 ELSE 0

(* goal_boost, lines 428-434 (1 = 0.001) *)
goal_boost(e, career_goals, row) ==
    50 * Cardinality({ k \in DOMAIN e.CAREER_GOAL_BOOSTS :
                          /\ k \in KeywordsIn(career_goals)
                          /\ row.career_family \in e.CAREER_GOAL_BOOSTS[k] })

(* lines 436-440 (1 = 0.001) *)
CombinedScore(e, raw, user_vec, row) ==
    IF LowerGoals(raw.career_goals) # "" /\ DOMAIN e.CAREER_GOAL_BOOSTS # {}
    THEN cosine_similarity(user_vec, SkillVector(e, row))
         + goal_boost(e, LowerGoals(raw.career_goals), row)
    ELSE cosine_similarity(user_vec, SkillVector(e, row))

(* a re-ranker that is used whenever it is loaded, whatever it was fitted on *)
RankerLoaded(e) == e.ranker.loaded /\ e.scaler.loaded

(* lines 442-449: the re-ranker is used and neither transform nor          *)
(* predict_proba raises                                                    *)
RankerApplies(e) ==
    /\ e.ranker.loaded /\ e.scaler.loaded
    /\ e.scaler.n_features = Len(e.SKILL_COLS)
    /\ e.ranker.n_features = Len(e.SKILL_COLS)

(* the _score column (1 = 0.0001) *)
FinalScore(e, raw, user_vec, row) ==
    IF RankerApplies(e)
    THEN 6 * CombinedScore(e, raw, user_vec, row) + 4 * RankerProba(SkillVector(e, row))
    ELSE 10 * CombinedScore(e, raw, user_vec, row)

(* df.head(n): the first candidates in catalogue order *)
CatalogueOrderTop(e, cand, n) ==
    [k \in DOMAIN FirstN(cand, n) |-> [idx |-> cand[k], has_score |-> FALSE, score |-> 0]]

(* df.sort_values("future_proof_score", ascending=False).head(n) *)
FutureProofTop(e, cand, n) ==
    LET keys == [k \in DOMAIN cand |-> e.master.rows[cand[k]].future_proof_score]
        top  == FirstN(Permute(cand, StableArgsortDesc(keys, DOMAIN keys)), n)
    IN  [k \in DOMAIN top |-> [idx |-> top[k], has_score |-> FALSE, score |-> 0]]

(* df.nlargest(n, "_score") *)
NLargest(scored, n) ==
    LET keys == [k \in DOMAIN scored |-> scored[k].score]
    IN  FirstN(Permute(scored, StableArgsortDesc(keys, DOMAIN keys)), n)

(* lines 412-451: the frame handed to _format_recommendations *)
TopFrame(e, raw, user, n) ==
    LET cand     == Candidates(e, raw.user_type)
        user_vec == [i \in DOMAIN e.SKILL_COLS |-> DictGet(user, e.SKILL_COLS[i], 0)]
    IN  IF e.SKILL_COLS = <<>> \/ SeqSum(user_vec) = 0
        THEN FutureProofTop(e, cand, n)
        ELSE NLargest([k \in DOMAIN cand |->
                          [idx |-> cand[k], has_score |-> TRUE,
                           score |-> FinalScore(e, raw, user_vec, e.master.rows[cand[k]])]],
                      n)

MinOf(S) == CHOOSE x \in S : \A y \in S : x <= y

MaxOf(S) == CHOOSE x \in S : \A y \in S : x >= y

(* lines 481-487: s_min and score_range of the frame (1 = 0.0001) *)
ScoreMin(top) ==
    IF top # <<>> /\ top[1].has_score THEN MinOf({ top[k].score : k \in DOMAIN top }) ELSE 0

(* a score range that is the maximum itself *)
ScoreRangeFromZero(top) ==
    IF top # <<>> /\ top[1].has_score
    THEN LET s_max == MaxOf({ top[k].score : k \in DOMAIN top })
         IN  IF s_max > ScoreMin(top) THEN s_max ELSE 10000
    ELSE 10000

ScoreRange(top) ==
    IF top # <<>> /\ top[1].has_score
    THEN LET s_max == MaxOf({ top[k].score : k \in DOMAIN top })
         IN  IF s_max > ScoreMin(top) THEN s_max - ScoreMin(top) ELSE 10000
    ELSE 10000

(* lines 491-497: Match Score (%) (1 = 0.1) *)
MatchPct(top, k) ==
    LET raw_score   == IF top[k].has_score THEN top[k].score ELSE 5000
        score_range == ScoreRange(top)
    IN  IF score_range > 0
        THEN RoundDiv(550 * score_range + (raw_score - ScoreMin(top)) * 430, score_range)
        ELSE 700

(* _format_recommendations *)
FormatRecommendations(e, top) ==
    [k \in DOMAIN top |->
        LET row == e.master.rows[top[k].idx] IN
        [Rank               |-> k,
         Career             |-> row.occupation,
         CareerFamily       |-> row.career_family,
         MatchScore         |-> MatchPct(top, k),
         FutureProofScore   |-> row.future_proof_score,
         AIRisk             |-> categorise_risk(e, row.blended_risk)]]

(* recommend_careers.  top is the frame that was formatted. *)
recommend_careers(e, raw, n) ==
    LET parsed == parse_user_skills(e, raw)
        top    == TopFrame(e, raw, parsed.scores, n)
    IN  IF parsed.raised \/ ~(Range(e.SKILL_COLS) \subseteq Range(e.master.skill_columns))
        THEN [raised |-> TRUE, user |-> parsed.scores, top |-> <<>>, rows |-> <<>>]
        ELSE [raised |-> FALSE, user |-> parsed.scores, top |-> top,
              rows |-> FormatRecommendations(e, top)]

(***************************************************************************)
(* Course search and learning path.                                        *)
(***************************************************************************)
(* skill_name.lower().replace("_", " ") *)
QueryOf(skill_name) ==
    CASE skill_name = "skill_programming" -> "skill programming"
      [] skill_name = "skill_service"     -> "skill service"
      [] skill_name = "skill_writing"     -> "skill writing"
      [] skill_name = "Python"            -> "python"
      [] OTHER                            -> skill_name

DefaultMinQuality == 30

(* line 596: the similarity a masked entry must exceed, 0.01 (1 = 0.0001) *)
SimFloor == 100

(* a mask that ignores the level filter *)
CourseMaskAnyLevel(row, level_filter, min_quality) ==
    SanitiseNum(row.quality_score) >= min_quality

(* lines 590-593: quality_score.fillna(0) >= min_quality, and the level    *)
(* when a level filter is given (an empty level_filter is no filter)       *)
CourseMask(row, level_filter, min_quality) ==
    /\ SanitiseNum(row.quality_score) >= min_quality
    /\ (level_filter = "" \/ row.std_level = level_filter)

(* search_courses_for_skill (similarities 1 = 0.0001, quality 1 = 0.01,    *)
(* skill_match_pct = round(similarity * 100, 1), 1 = 0.1 %).  The product  *)
(* of the similarities and the mask raises when the index was fitted on    *)
(* another catalogue.                                                      *)
search_courses_for_skill(e, skill_name, top_k, level_filter, min_quality) ==
    IF ~e.course_tfidf \/ ~e.courses.loaded
    THEN [raised |-> FALSE, courses |-> <<>>]
    ELSE IF e.course_matrix.n_rows # Len(e.courses.rows)
    THEN [raised |-> TRUE, courses |-> <<>>]
    ELSE
      LET rows    == e.courses.rows
          sims    == DictGet(e.course_matrix.sims, QueryOf(skill_name),
                             [i \in DOMAIN rows |-> 0])
          masked  == [i \in DOMAIN rows |->
                        IF CourseMask(rows[i], level_filter, min_quality)
                        THEN sims[i] ELSE 0]
          order   == ArgsortDesc(masked, DOMAIN masked)
          top_idx == FirstN(SelectSeq(order, LAMBDA i : masked[i] > SimFloor), top_k)
      IN  [raised |-> FALSE,
           courses |-> [k \in DOMAIN top_idx |->
              [course_title    |-> rows[top_idx[k]].course_title,
               level           |-> rows[top_idx[k]].std_level,
               quality_score   |-> rows[top_idx[k]].quality_score,
               duration_hours  |-> rows[top_idx[k]].duration_hours,
               skill_match_pct |-> RoundDiv(masked[top_idx[k]], 10),
               skill_gap       |-> skill_name]]]

(* top_gaps[start - 1 :: step] *)
RECURSIVE Strided(_, _, _)
Strided(s, start, step) ==
    IF start > Len(s) THEN <<>> ELSE <<s[start]>> \o Strided(s, start + step, step)

(* a fallback that is never taken *)
LevelOnly(a, b) == a

(* lines 631-634: if not courses *)
FirstNonEmpty(a, b) == IF a = <<>> THEN b ELSE a

(* lines 628-634: the courses found for one gap, of the level first, of    *)
(* any level when the level has none                                       *)
GapCourses(e, col, level, courses_per_gap) ==
    FirstNonEmpty(
        search_courses_for_skill(e, col, courses_per_gap, level, DefaultMinQuality).courses,
        search_courses_for_skill(e, col, courses_per_gap, "", DefaultMinQuality).courses)

(* lines 626-635: stage_courses, the courses of the gaps in gap order *)
RECURSIVE StageCourses(_, _, _, _)
StageCourses(e, gaps, level, courses_per_gap) ==
    IF gaps = <<>> THEN <<>>
    ELSE GapCourses(e, Head(gaps).col, level, courses_per_gap)
         \o StageCourses(e, Tail(gaps), level, courses_per_gap)

(* every course kept, repeated titles included *)
KeepAll(cs, seen_titles) == cs

(* lines 637-642: the first course of every title *)
RECURSIVE UniqueCourses(_, _)
UniqueCourses(cs, seen_titles) ==
    IF cs = <<>> THEN <<>>
    ELSE IF Head(cs).course_title \in seen_titles THEN UniqueCourses(Tail(cs), seen_titles)
    ELSE <<Head(cs)>> \o UniqueCourses(Tail(cs), seen_titles \cup {Head(cs).course_title})

DefaultHours == 200

(* line 644: float(c.get("duration_hours") or 20), 1 = 0.1 hour; None and  *)
(* 0 are falsy, NaN is not                                                 *)
HoursOf(duration_hours) ==
    IF duration_hours \in {None, 0} THEN DefaultHours ELSE duration_hours

(* line 644: hrs, the sum over the stage's courses (1 = 0.1 hour) *)
StageHours(unique_courses) ==
    NanSum([k \in DOMAIN unique_courses |-> HoursOf(unique_courses[k].duration_hours)])

(* round(hrs, 0) in hours *)
RoundHours(hrs) == IF hrs = NaN THEN NaN ELSE RoundDiv(hrs, 10)

(* lines 646-652: the stage record of a level and its courses *)
StageRecord(stage_idx, level, unique_courses) ==
    [stage     |-> stage_idx,
     level     |-> level,
     courses   |-> unique_courses,
     hours_est |-> RoundHours(StageHours(unique_courses))]

(* lines 625 and 627: the gaps a stage searches courses for,               *)
(* top_gaps[stage_idx - 1 :: len(edu_levels)][:4]                          *)
StageGaps(top_gaps, edu_levels, stage_idx) ==
    FirstN(Strided(top_gaps, stage_idx, Len(edu_levels)), 4)

(* lines 624-652: one pass of the loop over edu_levels[:3] *)
Stage(e, top_gaps, edu_levels, stage_idx, courses_per_gap) ==
    StageRecord(stage_idx, edu_levels[stage_idx],
        UniqueCourses(
            StageCourses(e, StageGaps(top_gaps, edu_levels, stage_idx),
                         edu_levels[stage_idx], courses_per_gap), {}))

(* lines 645 and 654-658: total_hrs is the sum of the stages' hrs *)
PathRecord(raised, stages, user_type) ==
    [raised      |-> raised,
     stages      |-> stages,
     total_hours |-> RoundHours(NanSum([k \in DOMAIN stages |->
                                            StageHours(stages[k].courses)])),
     user_type   |-> user_type]

(* lines 618-658 for the levels of the user type; a search is made, and    *)
(* can raise, when there is a gap and a level                              *)
LearningPath(e, top_gaps, edu_levels, user_type, courses_per_gap) ==
    PathRecord(/\ top_gaps # <<>> /\ edu_levels # <<>>
               /\ search_courses_for_skill(e, top_gaps[1].col, courses_per_gap,
                                           "", DefaultMinQuality).raised,
               [stage_idx \in 1..Min(3, Len(edu_levels)) |->
                    Stage(e, top_gaps, edu_levels, stage_idx, courses_per_gap)],
               user_type)

(* user_type.lower() *)
LowerUserType(user_type) ==
    CASE user_type = "CBC"      -> "cbc"
      [] user_type = "Graduate" -> "graduate"
      [] OTHER                  -> user_type

(* the default level list whatever the user type *)
EduLevelsDefault(e, user_type) == <<"Foundation", "Intermediate">>

(* lines 618-619 *)
EduLevelsOf(e, user_type) ==
    DictGet(e.EDUCATION_COURSE_LEVELS, LowerUserType(user_type),
            <<"Foundation", "Intermediate">>)

(* generate_learning_path *)
generate_learning_path(e, gap_report, user_type, courses_per_gap) ==
    LearningPath(e, gap_report.top_gaps, EduLevelsOf(e, user_type),
                 user_type, courses_per_gap)

(***************************************************************************)
(* Specification SpecPath: generate_learning_path applied to gap reports   *)
(* of 0..MaxGaps top gaps, for the level lists of both level maps.         *)
(***************************************************************************)
MaxGaps == 8

PathEngines == { LoadedWith(absent) : absent \in SUBSET {"course_recommender", "courses"} }

GapCols ==
    <<"skill_programming", "skill_service", "skill_writing", "skill_maths",
      "skill_speaking", "skill_design", "skill_science", "skill_repairing",
      "skill_negotiation">>

(* a gap report whose k top gaps are on distinct dimensions *)
GapReportOf(k) ==
    [top_gaps |-> [i \in 1..k |-> [col |-> GapCols[((i - 1) % Len(GapCols)) + 1]]]]

PathUserTypes ==
    {"cbc", "8-4-4", "graduate", "postgraduate", "professional", "teacher", "CBC"}

(* line 635: the value of courses that each searched gap of each built    *)
(* stage adds to stage_courses                                             *)
Contributed(e, top_gaps, edu_levels, courses_per_gap) ==
    [stage_idx \in 1..Min(3, Len(edu_levels)) |->
        LET gaps == StageGaps(top_gaps, edu_levels, stage_idx)
        IN  [k \in DOMAIN gaps |->
                GapCourses(e, gaps[k].col, edu_levels[stage_idx], courses_per_gap)]]

(* the positions in top_gaps of the gaps each built stage handles *)
StageRanks(top_gaps, edu_levels) ==
    [stage_idx \in 1..Min(3, Len(edu_levels)) |->
        LET gaps == StageGaps(top_gaps, edu_levels, stage_idx)
        IN  { i \in DOMAIN top_gaps : \E k \in DOMAIN gaps : gaps[k].col = top_gaps[i].col }]

InitPath ==
    /\ engine \in PathEngines
    /\ loadPc = "done"
    /\ pending = NoReq
    /\ resp = NoResp

ArrivePath ==
    /\ Idle
    /\ \E k \in 0..MaxGaps, user_type \in PathUserTypes, courses_per_gap \in {1, 2} :
          pending' = [op |-> "generate_learning_path", gap_report |-> GapReportOf(k),
                      user_type |-> user_type, courses_per_gap |-> courses_per_gap]
    /\ UNCHANGED <<engine, loadPc, resp>>

DoPath ==
    /\ pending.op = "generate_learning_path"
    /\ resp.op = "none"
    /\ resp' = [op |-> pending.op,
                result |-> generate_learning_path(engine, pending.gap_report,
                                pending.user_type, pending.courses_per_gap),
                stage_ranks |-> StageRanks(pending.gap_report.top_gaps,
                                    EduLevelsOf(engine, pending.user_type)),
                contributed |-> Contributed(engine, pending.gap_report.top_gaps,
                                    EduLevelsOf(engine, pending.user_type),
                                    pending.courses_per_gap)]
    /\ UNCHANGED <<engine, loadPc, pending>>

NextPath == ArrivePath \/ DoPath \/ Reply

SpecPath == InitPath /\ [][NextPath]_vars

NumStages == Len(resp.result.stages)

NumGaps == Len(pending.gap_report.top_gaps)

(* C12: top gap i (counted from 0) is assigned to stage i mod num_stages   *)
(* (counted from 0) and to no other stage, where num_stages is the number  *)
(* of stages built, for every level list and every number of top gaps.     *)
C12_RoundRobinByStageCount ==
    (resp.op = "generate_learning_path" /\ ~resp.result.raised) =>
        \A i \in 0..(NumGaps - 1) :
            /\ NumStages > 0
            /\ \A st \in 1..NumStages :
                  (i + 1) \in resp.stage_ranks[st] <=> st = (i % NumStages) + 1

(* What holds: a stage handles only gaps i with                            *)
(* i mod len(edu_levels) = stage index, no gap is handled by two stages,   *)
(* and when the level list has at most 3 levels and there are at most      *)
(* 4 gaps per level, every gap is handled by stage i mod num_stages.       *)
C12_RoundRobinByLevelCount ==
    (resp.op = "generate_learning_path" /\ ~resp.result.raised) =>
        LET levels == Len(EduLevelsOf(engine, pending.user_type))
        IN  /\ \A st \in 1..NumStages : \A r \in resp.stage_ranks[st] :
                  (r - 1) % levels = st - 1
            /\ (levels <= 3 /\ NumGaps <= 4 * levels) =>
                  \A i \in 0..(NumGaps - 1) :
                      (i + 1) \in resp.stage_ranks[(i % NumStages) + 1]

C12_ScenarioReached ==
    /\ resp.op = "generate_learning_path"
    /\ ~resp.result.raised
    /\ NumGaps = 6
    /\ NumStages = 3
    /\ resp.stage_ranks = <<{1, 4}, {2, 5}, {3, 6}>>

(* _sanitise on the numbers of a learning path *)
SanitiseCourses(cs) ==
    [k \in DOMAIN cs |-> [cs[k] EXCEPT !.duration_hours = SanitiseNum(@),
                                       !.quality_score = SanitiseNum(@)]]

SanitisePath(path) ==
    [path EXCEPT !.total_hours = SanitiseNum(@),
                 !.stages = [k \in DOMAIN @ |->
                               [@[k] EXCEPT !.hours_est = SanitiseNum(@),
                                            !.courses = SanitiseCourses(@)]]]

(* the numbers in the course records of a search result *)
CourseNumbers(cs) ==
    UNION { { cs[c].duration_hours, cs[c].quality_score, cs[c].skill_match_pct } :
              c \in DOMAIN cs }

(* the numbers in a learning path *)
PathNumbers(path) ==
    {path.total_hours}
    \cup { path.stages[k].hours_est : k \in DOMAIN path.stages }
    \cup UNION { CourseNumbers(path.stages[k].courses) : k \in DOMAIN path.stages }

(* C15: with a catalogue whose numeric fields may be NaN, no number in the *)
(* output of generate_learning_path (and of the course search it is built  *)
(* from) is NaN or infinite.                                               *)
C15_NoNonFiniteOutput ==
    (resp.op = "generate_learning_path" /\ ~resp.result.raised) =>
        \A x \in PathNumbers(resp.result) : IsFinite(x)

(* What holds: the learning path that run_full_pipeline returns for the    *)
(* same arguments has passed _sanitise and has no NaN.                     *)
C15_PipelinePathFinite ==
    (resp.op = "generate_learning_path" /\ ~resp.result.raised) =>
        \A x \in PathNumbers(SanitisePath(resp.result)) : IsFinite(x)

C15_NaNCourseFound ==
    /\ resp.op = "generate_learning_path"
    /\ ~resp.result.raised
    /\ \E k \in DOMAIN resp.result.stages : \E c \in DOMAIN resp.result.stages[k].courses :
          ~IsFinite(resp.result.stages[k].courses[c].duration_hours)

PathBuilt == resp.op = "generate_learning_path" /\ ~resp.result.raised

(* the gaps that stage st of the answered request searches courses for *)
SearchedGaps(st) ==
    StageGaps(pending.gap_report.top_gaps, EduLevelsOf(engine, pending.user_type), st)

(* the course search of the answered request for one gap and level filter *)
LevelSearch(col, level) ==
    search_courses_for_skill(engine, col, pending.courses_per_gap, level,
                             DefaultMinQuality).courses

(* C21: for each of the at most 4 gaps searched in a stage, the courses    *)
(* contributed for the gap are the level-filtered search results when that *)
(* search is non-empty and otherwise the results of the same search        *)
(* without a level filter; a stage has a course of another level only from *)
(* a gap whose level-filtered search returned nothing, and a searched gap  *)
(* contributes no course only when the unfiltered search is empty too.     *)
C21_LevelFirstThenAnyLevel ==
    PathBuilt =>
        \A st \in DOMAIN resp.result.stages :
            LET level == resp.result.stages[st].level
                gaps  == SearchedGaps(st)
            IN  /\ Len(gaps) <= 4
                /\ DOMAIN resp.contributed[st] = DOMAIN gaps
                /\ \A k \in DOMAIN gaps :
                      /\ LevelSearch(gaps[k].col, level) # <<>> =>
                            resp.contributed[st][k] = LevelSearch(gaps[k].col, level)
                      /\ LevelSearch(gaps[k].col, level) = <<>> =>
                            resp.contributed[st][k] = LevelSearch(gaps[k].col, "")
                      /\ resp.contributed[st][k] = <<>> =>
                            LevelSearch(gaps[k].col, "") = <<>>
                /\ \A c \in DOMAIN resp.result.stages[st].courses :
                      resp.result.stages[st].courses[c].level # level =>
                          \E k \in DOMAIN gaps :
                              /\ gaps[k].col = resp.result.stages[st].courses[c].skill_gap
                              /\ LevelSearch(gaps[k].col, level) = <<>>

(* a path with a stage served by courses of its own level and a stage that  *)
(* got a course of another level for a gap its level has no course for     *)
C21_Witness ==
    /\ PathBuilt
    /\ \E st \in DOMAIN resp.result.stages : \E c \in DOMAIN resp.result.stages[st].courses :
          resp.result.stages[st].courses[c].level = resp.result.stages[st].level
    /\ \E st \in DOMAIN resp.result.stages : \E c \in DOMAIN resp.result.stages[st].courses :
          resp.result.stages[st].courses[c].level # resp.result.stages[st].level

(* a searched gap for which no course exists at any level *)
C21_WitnessNoCourse ==
    /\ PathBuilt
    /\ engine.course_tfidf
    /\ \E st \in DOMAIN resp.contributed : \E k \in DOMAIN resp.contributed[st] :
          resp.contributed[st][k] = <<>>
    /\ \E st \in DOMAIN resp.contributed : \E k \in DOMAIN resp.contributed[st] :
          resp.contributed[st][k] # <<>>

RECURSIVE Flatten(_)
Flatten(ss) == IF ss = <<>> THEN <<>> ELSE Head(ss) \o Flatten(Tail(ss))

(* the courses discovered for stage st, in gap order then result order *)
Discovered(st) == Flatten(resp.contributed[st])

(* the positions of Discovered(st) whose title did not occur earlier *)
FirstOccurrences(st) ==
    { k \in DOMAIN Discovered(st) :
        \A j \in 1..(k - 1) : Discovered(st)[j].course_title # Discovered(st)[k].course_title }

(* the i-th smallest member of a set of positions *)
NthOf(S, i) == CHOOSE k \in S : Cardinality({ j \in S : j < k }) = i - 1

(* C22: within each stage of a learning path no two courses have the same  *)
(* title; of the courses the stage's gaps return, exactly the first        *)
(* occurrence of every title is kept, and the kept courses are in the      *)
(* order of first discovery (gap order, then search-result order).         *)
C22_StageTitlesUniqueInDiscoveryOrder ==
    PathBuilt =>
        \A st \in DOMAIN resp.result.stages :
            LET courses == resp.result.stages[st].courses
            IN  /\ \A a \in DOMAIN courses : \A b \in DOMAIN courses :
                      a # b => courses[a].course_title # courses[b].course_title
                /\ Len(courses) = Cardinality(FirstOccurrences(st))
                /\ \A i \in DOMAIN courses :
                      courses[i] = Discovered(st)[NthOf(FirstOccurrences(st), i)]

(* a stage where two gaps returned the same title, one occurrence was      *)
(* dropped and courses of two gaps remain                                  *)
C22_Witness ==
    /\ PathBuilt
    /\ \E st \in DOMAIN resp.result.stages :
          /\ Len(resp.result.stages[st].courses) >= 2
          /\ Len(Discovered(st)) > Len(resp.result.stages[st].courses)
          /\ \E a \in DOMAIN resp.result.stages[st].courses :
                resp.result.stages[st].courses[a].skill_gap
                    # resp.result.stages[st].courses[1].skill_gap

(* the hours the stage's courses add up to when a missing duration (None   *)
(* or NaN) counts 20 hours (1 = 0.1 hour)                                  *)
ClaimedHours(courses) ==
    SeqSum([k \in DOMAIN courses |->
              IF courses[k].duration_hours \in {None, NaN} THEN DefaultHours
              ELSE courses[k].duration_hours])

HasNaNDuration(courses) == \E k \in DOMAIN courses : courses[k].duration_hours = NaN

(* C23: each stage's hours_est is the sum over its deduplicated courses of *)
(* the course's duration, counting 20 hours for a course whose duration is *)
(* missing (absent, null or NaN), and total_hours is the sum of the        *)
(* stages' hours (both rounded to whole hours).                            *)
C23_HoursCountMissingAsTwenty ==
    PathBuilt =>
        /\ \A st \in DOMAIN resp.result.stages :
              resp.result.stages[st].hours_est
                  = RoundDiv(ClaimedHours(resp.result.stages[st].courses), 10)
        /\ resp.result.total_hours
              = RoundDiv(SeqSum([st \in DOMAIN resp.result.stages |->
                                   ClaimedHours(resp.result.stages[st].courses)]), 10)

(* What holds: the sums are as stated for stages without a NaN duration    *)
(* (None counts 20 hours); a stage with a NaN duration has hours_est NaN,  *)
(* and total_hours is then NaN as well.                                    *)
C23_HoursWhenDurationsNotNaN ==
    PathBuilt =>
        /\ \A st \in DOMAIN resp.result.stages :
              resp.result.stages[st].hours_est
                  = IF HasNaNDuration(resp.result.stages[st].courses) THEN NaN
                    ELSE RoundDiv(ClaimedHours(resp.result.stages[st].courses), 10)
        /\ resp.result.total_hours
              = IF \E st \in DOMAIN resp.result.stages :
                       HasNaNDuration(resp.result.stages[st].courses)
                THEN NaN
                ELSE RoundDiv(SeqSum([st \in DOMAIN resp.result.stages |->
                                   ClaimedHours(resp.result.stages[st].courses)]), 10)

(* a path whose hours are finite and include the 20 hours of a course with *)
(* no duration                                                             *)
C23_DefaultHoursCounted ==
    /\ PathBuilt
    /\ IsFinite(resp.result.total_hours)
    /\ \E st \in DOMAIN resp.result.stages :
          /\ Len(resp.result.stages[st].courses) = 2
          /\ resp.result.stages[st].courses[1].duration_hours = None
          /\ resp.result.stages[st].hours_est = 50

(* a stage whose hours are NaN because a course's duration is NaN *)
C23_NaNHoursReached ==
    /\ PathBuilt
    /\ \E st \in DOMAIN resp.result.stages :
          /\ HasNaNDuration(resp.result.stages[st].courses)
          /\ resp.result.stages[st].hours_est = NaN

(* the levels mapped to the user type of the answered request, or the      *)
(* list [Foundation, Intermediate] when the mapping has no entry for it    *)
MappedLevels ==
    IF LowerUserType(pending.user_type) \in DOMAIN engine.EDUCATION_COURSE_LEVELS
    THEN engine.EDUCATION_COURSE_LEVELS[LowerUserType(pending.user_type)]
    ELSE <<"Foundation", "Intermediate">>

(* C24: generate_learning_path produces exactly min(3, number of levels    *)
(* mapped to the user type) stages, numbered 1, 2, ... in the mapping's    *)
(* level order, with the levels [Foundation, Intermediate] for a user type *)
(* not in the mapping, whatever the number of top gaps; with zero gaps     *)
(* every stage has no courses and 0 hours.                                 *)
C24_StagesFollowMappedLevels ==
    PathBuilt =>
        /\ NumStages = Min(3, Len(MappedLevels))
        /\ \A st \in DOMAIN resp.result.stages :
              /\ resp.result.stages[st].stage = st
              /\ resp.result.stages[st].level = MappedLevels[st]
              /\ NumGaps = 0 => /\ resp.result.stages[st].courses = <<>>
                                /\ resp.result.stages[st].hours_est = 0

(* three stages for a user type mapped to four levels, built without gaps *)
C24_Witness ==
    /\ PathBuilt
    /\ NumGaps = 0
    /\ Len(MappedLevels) = 4
    /\ NumStages = 3
    /\ resp.result.stages[3].level = "Advanced"
    /\ resp.result.total_hours = 0

(* the default levels for a user type that the mapping does not have *)
C24_WitnessDefault ==
    /\ PathBuilt
    /\ NumGaps > 0
    /\ pending.user_type = "teacher"
    /\ NumStages = 2
    /\ resp.result.stages[2].level = "Intermediate"

(* one stage for a user type mapped to one level, given in upper case *)
C24_WitnessOneLevel ==
    /\ PathBuilt
    /\ pending.user_type = "CBC"
    /\ NumStages = 1
    /\ NumGaps > 4

(***************************************************************************)
(* Specification SpecCourses: search_courses_for_skill applied to a        *)
(* request.                                                                *)
(***************************************************************************)
CourseEngines == { LoadedWith(absent) : absent \in SUBSET {"course_recommender", "courses"} }

CourseQueries == {"Python", "skill_programming", "skill_service", "skill_writing", "cooking"}

CourseLevels == {"", "Foundation", "Intermediate", "Advanced"}

QualityValues == {0, 30, 70}

InitCourses ==
    /\ engine \in CourseEngines
    /\ loadPc = "done"
    /\ pending = NoReq
    /\ resp = NoResp

ArriveCourses ==
    /\ Idle
    /\ \E sk \in CourseQueries, k \in 1..MaxTopN, lv \in CourseLevels, q \in QualityValues :
          pending' = [op |-> "search_courses_for_skill", skill_name |-> sk, top_k |-> k,
                      level_filter |-> lv, min_quality |-> q]
    /\ UNCHANGED <<engine, loadPc, resp>>

DoCourses ==
    /\ pending.op = "search_courses_for_skill"
    /\ resp.op = "none"
    /\ resp' = [op |-> pending.op,
                result |-> search_courses_for_skill(engine, pending.skill_name,
                              pending.top_k, pending.level_filter, pending.min_quality)]
    /\ UNCHANGED <<engine, loadPc, pending>>

NextCourses == ArriveCourses \/ DoCourses \/ Reply

SpecCourses == InitCourses /\ [][NextCourses]_vars

Searched == resp.op = "search_courses_for_skill" /\ ~resp.result.raised /\ engine.course_tfidf

(* the similarity of every catalogue row to the query *)
QuerySims ==
    DictGet(engine.course_matrix.sims, QueryOf(pending.skill_name),
            [i \in DOMAIN engine.courses.rows |-> 0])

(* the rows the claim names: similarity > 0.01, quality >= min_quality,    *)
(* and the level of the filter when one is given                           *)
Qualifying ==
    { i \in DOMAIN engine.courses.rows :
        /\ QuerySims[i] > 100
        /\ engine.courses.rows[i].quality_score >= pending.min_quality
        /\ (pending.level_filter # "" =>
              engine.courses.rows[i].std_level = pending.level_filter) }

(* the catalogue row of a returned course *)
RowOf(course) ==
    CHOOSE i \in DOMAIN engine.courses.rows :
        engine.courses.rows[i].course_title = course.course_title

(* C19: the search returns exactly the qualifying courses (similarity      *)
(* above 0.01, quality at least min_quality, the filter's level when one   *)
(* is given), in descending similarity, truncated to top_k (the ones left  *)
(* out are not more similar than the ones returned), each with             *)
(* skill_match_pct = similarity * 100 rounded to one decimal.              *)
C19_SearchReturnsQualifyingTopK ==
    Searched =>
        LET out  == resp.result.courses
            idx  == [k \in DOMAIN out |-> RowOf(out[k])]
            seen == { idx[k] : k \in DOMAIN out }
        IN  /\ Len(out) = Min(pending.top_k, Cardinality(Qualifying))
            /\ seen \subseteq Qualifying
            /\ Cardinality(seen) = Len(out)
            /\ \A k \in DOMAIN out : \A l \in DOMAIN out :
                  k < l => QuerySims[idx[k]] >= QuerySims[idx[l]]
            /\ \A i \in Qualifying \ seen : \A k \in DOMAIN out :
                  QuerySims[i] <= QuerySims[idx[k]]
            /\ \A k \in DOMAIN out :
                  out[k].skill_match_pct = RoundDiv(QuerySims[idx[k]], 10)

(* a level filter and the quality floor leave out more similar courses,    *)
(* and a match percentage is rounded                                       *)
C19_Witness ==
    /\ Searched
    /\ pending.skill_name = "skill_programming"
    /\ pending.level_filter = "Foundation"
    /\ Len(resp.result.courses) = 1
    /\ resp.result.courses[1].course_title = "Python for Data Science"
    /\ resp.result.courses[1].skill_match_pct = 457

C19_WitnessTruncated ==
    /\ Searched
    /\ Cardinality(Qualifying) > pending.top_k
    /\ Len(resp.result.courses) = pending.top_k

(***************************************************************************)
(* Occupation lookup by name and the full pipeline.                        *)
(***************************************************************************)
(* the lower-cased words of an occupation title *)
TitleWords(title) ==
    CASE title = "Web Developers"            -> {"web", "developers"}
      [] title = "Nursing Assistants"        -> {"nursing", "assistants"}
      [] title = "Data Analysts"             -> {"data", "analysts"}
      [] title = "Software Testers"          -> {"software", "testers"}
      [] title = "Ushers"                    -> {"ushers"}
      [] title = "Software Developers"       -> {"software", "developers"}
      [] title = "Computer Systems Analysts" -> {"computer", "systems", "analysts"}
      [] title = "Registered Nurses"         -> {"registered", "nurses"}
      [] title = "Greeters"                  -> {"greeters"}
      [] title = "Proofreaders"              -> {"proofreaders"}
      [] OTHER                               -> {}

(* name.lower() *)
LowerName(name) ==
    CASE name = "Web Developers"     -> "web developers"
      [] name = "Nursing Assistants" -> "nursing assistants"
      [] name = "Data Analysts"      -> "data analysts"
      [] name = "Software Testers"   -> "software testers"
      [] name = "Ushers"             -> "ushers"
      [] name = "Greeters"           -> "greeters"
      [] name = "Proofreaders"       -> "proofreaders"
      [] name = "Software Developers"       -> "software developers"
      [] name = "Computer Systems Analysts" -> "computer systems analysts"
      [] name = "Registered Nurses"         -> "registered nurses"
      [] name = "Data"               -> "data"
      [] name = "Pilot"              -> "pilot"
      [] OTHER                       -> name

(* name.split()[0], lower-cased for the case-insensitive search *)
FirstWord(name) ==
    CASE LowerName(name) = "web developers"     -> "web"
      [] LowerName(name) = "nursing assistants" -> "nursing"
      [] LowerName(name) = "data analysts"      -> "data"
      [] LowerName(name) = "software testers"   -> "software"
      [] LowerName(name) = "software developers"       -> "software"
      [] LowerName(name) = "computer systems analysts" -> "computer"
      [] LowerName(name) = "registered nurses"         -> "registered"
      [] OTHER                                  -> LowerName(name)

(* name.split() is empty: the name has no word *)
IsBlank(name) == name \in {"", " "}

(* rows whose title equals the name ignoring case *)
ExactRows(e, name) ==
    { i \in DOMAIN e.master.rows : LowerName(e.master.rows[i].occupation) = LowerName(name) }

(* rows whose title contains the first word of the name, ignoring case *)
FirstWordRows(e, name) ==
    { i \in DOMAIN e.master.rows : FirstWord(name) \in TitleWords(e.master.rows[i].occupation) }

(* The row the endpoints and the pipeline work on: the first row whose     *)
(* title equals the name ignoring case, else the first row whose title     *)
(* contains the first word of the name, else 0 (empty selection).  When    *)
(* no title equals a name without a word, name.split()[0] raises           *)
(* IndexError: -1.                                                         *)
FindOccupation(e, name) ==
    IF ExactRows(e, name) # {} THEN MinOf(ExactRows(e, name))
    ELSE IF IsBlank(name) THEN -1
    ELSE IF FirstWordRows(e, name) # {} THEN MinOf(FirstWordRows(e, name))
    ELSE 0

DefaultTopNGaps == 8

DefaultTopNStrong == 5

(* lines 709-742: the entry of career_details for a recommendation, its   *)
(* occupation row and its gap report                                       *)
CareerDetail(e, raw, courses_per_gap, rec, occ_row, gap_report) ==
    [rank          |-> rec.Rank,
     title         |-> rec.Career,
     match_score   |-> rec.MatchScore,
     ai_risk_label |-> categorise_risk(e, occ_row.blended_risk),
     gap_report    |-> gap_report,
     learning_path |-> SanitisePath(
                          generate_learning_path(e, gap_report, raw.user_type,
                                                 courses_per_gap))]

(* lines 700-742: the loop over the recommendations whose occupation is    *)
(* found                                                                   *)
CareerDetails(e, raw, courses_per_gap, user, found) ==
    [k \in DOMAIN found |->
        CareerDetail(e, raw, courses_per_gap, found[k],
                     e.master.rows[FindOccupation(e, found[k].Career)],
                     analyse_skills_gap(e, user,
                                        e.master.rows[FindOccupation(e, found[k].Career)],
                                        DefaultTopNGaps, DefaultTopNStrong))]

(* lines 743-750 *)
PipelineRecord(raw, recs, details) ==
    [raised          |-> recs.raised
                             \/ \E k \in DOMAIN details : details[k].learning_path.raised,
     career_details  |-> details,
     recommendations |-> recs.rows,
     user_type       |-> raw.user_type]

(* lines 697-750 once the recommendations and the user scores are there *)
Pipeline(e, raw, courses_per_gap, recs, user) ==
    PipelineRecord(raw, recs,
        CareerDetails(e, raw, courses_per_gap, user,
                      SelectSeq(recs.rows, LAMBDA rec : FindOccupation(e, rec.Career) > 0)))

(* run_full_pipeline *)
run_full_pipeline(e, raw, n, courses_per_gap) ==
    Pipeline(e, raw, courses_per_gap, recommend_careers(e, raw, n),
             parse_user_skills(e, raw).scores)

(***************************************************************************)
(* Specification SpecRank: recommend_careers applied to a request.         *)
(***************************************************************************)
(* engines whose re-ranker and scaler were fitted on another skill         *)
(* dimension list than the catalogue's: transform raises on them           *)
StaleRankerEngines ==
    { LoadAll(Engine0,
              [a \in Range(AllArtifacts) |->
                 IF a \in absent THEN "missing"
                 ELSE IF a \in {"career_ranker", "skill_scaler"} THEN "ok2" ELSE "ok"]) :
        absent \in SUBSET {"career_goal_boosts", "sentence_transformers"} }

(* engines started without the occupation catalogue and the gap bundle:    *)
(* the demo catalogue has no skill column, SKILL_COLS is empty             *)
NoDimensionEngines ==
    { LoadedWith({"master", "skills_gap_engine"} \cup absent) :
        absent \in SUBSET {"user_type_job_zones"} }

RankEngines ==
    { LoadAll(Engine0,
              [a \in Range(AllArtifacts) |-> IF a \in absent THEN "missing" ELSE ok]) :
        ok \in {"ok", "ok2"},
        absent \in SUBSET {"career_ranker", "user_type_job_zones", "career_goal_boosts",
                           "sentence_transformers"} }
    \cup StaleRankerEngines \cup NoDimensionEngines

RankSimValues == {-5, 3}

RankTexts ==
    { [user_type |-> t[1], pathway |-> t[2], subject_combination |-> <<"">>,
       skills |-> sk, soft_skills |-> <<>>, career_goals |-> g] :
        t \in { <<"cbc", "">>, <<"cbc", "STEM">>, <<"graduate", "">>,
                <<"postgraduate", "">>, <<"professional", "">>, <<"diploma", "">> },
        sk \in SeqUpTo({"Python", "help people"}, MaxPhrases),
        g \in {"", "work in technology and data science", "Health"} }

InitRank ==
    /\ engine \in RankEngines
    /\ loadPc = "done"
    /\ pending = NoReq
    /\ resp = NoResp

ArriveRank ==
    /\ Idle
    /\ \E raw \in RankTexts : \E sims \in SimRows(engine, raw, RankSimValues) :
       \E n \in 1..MaxTopN :
          pending' = [op |-> "recommend_careers", raw |-> raw @@ [sims |-> sims], n |-> n]
    /\ UNCHANGED <<engine, loadPc, resp>>

DoRank ==
    /\ pending.op = "recommend_careers"
    /\ resp.op = "none"
    /\ resp' = [op |-> "recommend_careers",
                result |-> recommend_careers(engine, pending.raw, pending.n)]
    /\ UNCHANGED <<engine, loadPc, pending>>

NextRank == ArriveRank \/ DoRank \/ Reply

SpecRank == InitRank /\ [][NextRank]_vars

Ranked == resp.op = "recommend_careers" /\ ~resp.result.raised

(* the allowed zone set of the request's user type *)
AllowedZones == DictGet(engine.USER_TYPE_JOB_ZONES, pending.raw.user_type, AllZones)

AllowedRows == { i \in DOMAIN engine.master.rows : engine.master.rows[i].job_zone \in AllowedZones }

(* C4: when some occupation of the catalogue has an allowed job zone, the  *)
(* candidates are exactly the occupations with an allowed zone (every      *)
(* returned occupation has one, and min(n, number of them) are returned);  *)
(* when none has, the candidates are the whole catalogue; the result is    *)
(* never empty for a non-empty catalogue.                                  *)
C4_ZoneFilterFailOpen ==
    Ranked =>
        LET top == resp.result.top IN
        /\ AllowedRows # {} =>
              /\ \A k \in DOMAIN top : top[k].idx \in AllowedRows
              /\ Len(top) = Min(pending.n, Cardinality(AllowedRows))
        /\ AllowedRows = {} => Len(top) = Min(pending.n, Len(engine.master.rows))
        /\ engine.master.rows # <<>> => resp.result.rows # <<>>

(* user type cbc with zones {1,2}: the zone-4 occupations of the catalogue *)
(* are left out although more results were asked for                       *)
C4_Witness ==
    /\ Ranked
    /\ pending.raw.user_type = "cbc"
    /\ AllowedZones = {1, 2}
    /\ \E i \in DOMAIN engine.master.rows : engine.master.rows[i].job_zone = 4
    /\ resp.result.rows # <<>>
    /\ Len(resp.result.rows) < pending.n

(* no occupation in the allowed zone {5}: the whole catalogue is used *)
C4_WitnessFailOpen ==
    /\ Ranked
    /\ AllowedZones = {5}
    /\ AllowedRows = {}
    /\ resp.result.rows # <<>>

(* the user vector the ranker builds from the parsed scores (line 413) *)
UserVec ==
    [i \in DOMAIN engine.SKILL_COLS |-> DictGet(resp.result.user, engine.SKILL_COLS[i], 0)]

(* the candidate occupations of the request (catalogue indices) *)
CandidateSet == IF AllowedRows = {} THEN DOMAIN engine.master.rows ELSE AllowedRows

(* occupation i precedes occupation j: higher final score, or the same     *)
(* final score and earlier in the catalogue                                *)
Precedes(i, j) ==
    LET si == FinalScore(engine, pending.raw, UserVec, engine.master.rows[i])
        sj == FinalScore(engine, pending.raw, UserVec, engine.master.rows[j])
    IN  si > sj \/ (si = sj /\ i < j)

TopNByScore ==
    LET top      == resp.result.top
        rows     == resp.result.rows
        returned == { top[k].idx : k \in DOMAIN top }
    IN  /\ Len(top) = Min(pending.n, Cardinality(CandidateSet))
        /\ Len(rows) = Len(top)
        /\ \A k \in DOMAIN top :
              /\ top[k].idx \in CandidateSet
              /\ rows[k].Rank = k
              /\ rows[k].Career = engine.master.rows[top[k].idx].occupation
              /\ \A l \in DOMAIN top : k < l => Precedes(top[k].idx, top[l].idx)
              /\ \A j \in CandidateSet \ returned : Precedes(top[k].idx, j)

(* the scenario of the specification: requirements [5,0], [0,5], [3,3],    *)
(* user vector [5,0], top_n = 2, no boosts, no re-ranker, no zone filter   *)
ScenarioApplies ==
    /\ Ranked
    /\ engine.master = FileMaster2
    /\ UserVec = <<5000, 0>>
    /\ pending.n = 2
    /\ ~RankerApplies(engine)
    /\ DOMAIN engine.CAREER_GOAL_BOOSTS = {}
    /\ CandidateSet = DOMAIN engine.master.rows

(* C5: when the user vector is non-zero the result is the top_n candidates *)
(* by final score, in descending order, ties in catalogue order, ranked    *)
(* 1..k; in the scenario the first occupation is ranked above the third    *)
(* and the second is excluded.                                             *)
C5_TopNByScore ==
    /\ (Ranked /\ \E i \in DOMAIN UserVec : UserVec[i] # 0) => TopNByScore
    /\ ScenarioApplies =>
          [k \in DOMAIN resp.result.top |-> resp.result.top[k].idx] = <<1, 3>>

(* the same statement for user vectors without negative entries *)
C5_TopNByScoreNonNegative ==
    /\ (/\ Ranked
        /\ \E i \in DOMAIN UserVec : UserVec[i] # 0
        /\ \A i \in DOMAIN UserVec : UserVec[i] >= 0) => TopNByScore
    /\ ScenarioApplies =>
          [k \in DOMAIN resp.result.top |-> resp.result.top[k].idx] = <<1, 3>>

C5_ScenarioReached == ScenarioApplies /\ resp.result.rows # <<>>

AllScored == Ranked /\ resp.result.top # <<>> /\ \A k \in DOMAIN resp.result.top : resp.result.top[k].has_score

TopScores == { resp.result.top[k].score : k \in DOMAIN resp.result.top }

(* C6: every Match Score lies in [55, 98] on both paths; when the final    *)
(* scores of the returned results are not all equal the lowest gets 55,    *)
(* the highest 98, and every other one the linear interpolation between    *)
(* them, rounded to one decimal.                                           *)
C6_MatchScoreRange ==
    Ranked =>
        LET top  == resp.result.top
            rows == resp.result.rows
        IN  /\ \A k \in DOMAIN rows : rows[k].MatchScore >= 550 /\ rows[k].MatchScore <= 980
            /\ (AllScored /\ Cardinality(TopScores) > 1) =>
                  LET lo    == MinOf(TopScores)
                      hi    == MaxOf(TopScores)
                  IN  \A k \in DOMAIN rows :
                         /\ top[k].score = lo => rows[k].MatchScore = 550
                         /\ top[k].score = hi => rows[k].MatchScore = 980
                         /\ 2 * Abs(rows[k].MatchScore * (hi - lo)
                                    - (550 * (hi - lo) + 430 * (top[k].score - lo)))
                               <= hi - lo

(* three results with three different final scores: 98, something strictly *)
(* between, 55                                                             *)
C6_Witness ==
    /\ AllScored
    /\ Len(resp.result.rows) = 3
    /\ resp.result.rows[1].MatchScore = 980
    /\ resp.result.rows[2].MatchScore > 550 /\ resp.result.rows[2].MatchScore < 980
    /\ resp.result.rows[3].MatchScore = 550

(* C7: when all returned results have the same final score (a single       *)
(* result included) every Match Score is 70.                               *)
C7_EqualScoresGive70 ==
    (AllScored /\ Cardinality(TopScores) = 1) =>
        \A k \in DOMAIN resp.result.rows : resp.result.rows[k].MatchScore = 700

BothModelsLoaded == engine.ranker.loaded /\ engine.scaler.loaded

(* the scaler and the re-ranker accept the catalogue's feature columns *)
ModelsFit ==
    /\ engine.scaler.n_features = Len(engine.SKILL_COLS)
    /\ engine.ranker.n_features = Len(engine.SKILL_COLS)

Blended(row) ==
    6 * CombinedScore(engine, pending.raw, UserVec, row) + 4 * RankerProba(SkillVector(engine, row))

Unblended(row) == 10 * CombinedScore(engine, pending.raw, UserVec, row)

ScoredResult ==
    /\ resp.op = "recommend_careers"
    /\ \E k \in DOMAIN resp.result.top : resp.result.top[k].has_score

(* C13: with the re-ranker and its scaler loaded, every scored candidate   *)
(* returned has the final score 0.6 * (cosine + goal bonus) + 0.4 *        *)
(* re-ranker probability when scaling and prediction succeed; when they    *)
(* raise, the final score is the un-blended combined score and the request *)
(* returns its ranked results instead of failing.                          *)
C13_BlendOrFallBack ==
    (resp.op = "recommend_careers" /\ BothModelsLoaded) =>
        LET top == resp.result.top IN
        /\ ModelsFit =>
              \A k \in DOMAIN top : top[k].has_score =>
                  top[k].score = Blended(engine.master.rows[top[k].idx])
        /\ ~ModelsFit =>
              /\ ~resp.result.raised
              /\ resp.result.rows # <<>>
              /\ \A k \in DOMAIN top : top[k].has_score =>
                    top[k].score = Unblended(engine.master.rows[top[k].idx])

(* the re-ranker raised and the results carry un-blended scores that       *)
(* differ from the blended ones                                            *)
C13_Witness ==
    /\ ScoredResult
    /\ BothModelsLoaded
    /\ ~ModelsFit
    /\ Len(resp.result.top) >= 2
    /\ \E k \in DOMAIN resp.result.top :
          resp.result.top[k].score # Blended(engine.master.rows[resp.result.top[k].idx])

C13_WitnessBlended ==
    /\ ScoredResult
    /\ BothModelsLoaded
    /\ ModelsFit
    /\ Len(resp.result.top) >= 2
    /\ \E k \in DOMAIN resp.result.top :
          resp.result.top[k].score # Unblended(engine.master.rows[resp.result.top[k].idx])

(* the table keywords that occur in the request's goal text (the text as   *)
(* recommend_careers reads it, in lower case)                              *)
GoalKeywords ==
    { k \in DOMAIN engine.CAREER_GOAL_BOOSTS :
        k \in KeywordsIn(LowerGoals(pending.raw.career_goals)) }

(* 0.05 for every keyword of the goal text that boosts the row's family    *)
(* (1 = 0.001)                                                             *)
ClaimedBonus(row) ==
    50 * Cardinality({ k \in GoalKeywords :
                          row.career_family \in engine.CAREER_GOAL_BOOSTS[k] })

(* the score of a row whose cosine similarity got the bonus added *)
ScoreWithBonus(row, bonus) ==
    IF BothModelsLoaded /\ ModelsFit
    THEN 6 * (cosine_similarity(UserVec, SkillVector(engine, row)) + bonus)
         + 4 * RankerProba(SkillVector(engine, row))
    ELSE 10 * (cosine_similarity(UserVec, SkillVector(engine, row)) + bonus)

(* C25: with a non-empty goal text and a configured keyword table, each    *)
(* occupation's goal bonus is 0.05 times the number of table keywords that *)
(* occur as a substring of the goal text and whose family set contains the *)
(* occupation's family; the bonus is added to the cosine similarity; it is *)
(* 0 for every occupation when the goal text or the table is empty.        *)
C25_GoalBonusPerMatchingKeyword ==
    Ranked =>
        \A k \in DOMAIN resp.result.top :
            resp.result.top[k].has_score =>
                /\ resp.result.top[k].score
                      = ScoreWithBonus(engine.master.rows[resp.result.top[k].idx],
                                       ClaimedBonus(engine.master.rows[resp.result.top[k].idx]))
                /\ (pending.raw.career_goals = "" \/ DOMAIN engine.CAREER_GOAL_BOOSTS = {}) =>
                      resp.result.top[k].score
                        = ScoreWithBonus(engine.master.rows[resp.result.top[k].idx], 0)

(* two keywords of the goal text boost the family of a returned            *)
(* occupation, which gets 0.10, and another returned occupation gets less  *)
C25_Witness ==
    /\ Ranked
    /\ pending.raw.career_goals = "work in technology and data science"
    /\ \E k \in DOMAIN resp.result.top :
          /\ resp.result.top[k].has_score
          /\ ClaimedBonus(engine.master.rows[resp.result.top[k].idx]) = 100
    /\ \E k \in DOMAIN resp.result.top :
          /\ resp.result.top[k].has_score
          /\ ClaimedBonus(engine.master.rows[resp.result.top[k].idx]) = 50

(* a goal text typed with a capital letter gets the keyword's bonus *)
C25_WitnessCapital ==
    /\ Ranked
    /\ pending.raw.career_goals = "Health"
    /\ \E k \in DOMAIN resp.result.top :
          /\ resp.result.top[k].has_score
          /\ ClaimedBonus(engine.master.rows[resp.result.top[k].idx]) = 50

(* a goal text with a table that is empty: no bonus *)
C25_WitnessNoTable ==
    /\ Ranked
    /\ pending.raw.career_goals # ""
    /\ DOMAIN engine.CAREER_GOAL_BOOSTS = {}
    /\ \E k \in DOMAIN resp.result.top : resp.result.top[k].has_score

FutureProof(i) == engine.master.rows[i].future_proof_score

(* C26: when no skill dimension is configured or the user skill vector     *)
(* sums to zero, the result is the top_n zone-filtered occupations in      *)
(* descending future_proof_score, without any score from cosine            *)
(* similarity, goal bonus or re-ranker.                                    *)
C26_FallbackByFutureProofScore ==
    (Ranked /\ (engine.SKILL_COLS = <<>> \/ SeqSum(UserVec) = 0)) =>
        LET top      == resp.result.top
            returned == { top[k].idx : k \in DOMAIN top }
        IN  /\ Len(top) = Min(pending.n, Cardinality(CandidateSet))
            /\ Cardinality(returned) = Len(top)
            /\ \A k \in DOMAIN top :
                  /\ top[k].idx \in CandidateSet
                  /\ ~top[k].has_score
                  /\ \A l \in DOMAIN top :
                        k < l => FutureProof(top[k].idx) >= FutureProof(top[l].idx)
                  /\ \A j \in CandidateSet \ returned :
                        FutureProof(top[k].idx) >= FutureProof(j)

(* no skill given: the best future-proof occupation, which is not the      *)
(* first of the catalogue, comes first and a candidate is left out         *)
C26_Witness ==
    /\ Ranked
    /\ engine.SKILL_COLS # <<>>
    /\ SeqSum(UserVec) = 0
    /\ Len(resp.result.top) >= 2
    /\ Len(resp.result.top) < Cardinality(CandidateSet)
    /\ resp.result.top[1].idx > resp.result.top[2].idx

(* no skill dimension configured, skills given *)
C26_WitnessNoDimension ==
    /\ Ranked
    /\ engine.SKILL_COLS = <<>>
    /\ pending.raw.skills # <<>>
    /\ Len(resp.result.top) >= 2
    /\ resp.result.top[1].idx > resp.result.top[2].idx

(***************************************************************************)
(* The service: startup loading interleaved with inbound requests.         *)
(* loadPc is the artifact load() reads next, then "finish", then "done";   *)
(* "raised" when an exception left load().  A request is in pending from   *)
(* its arrival to its reply; stage tells whether the dependency            *)
(* _require_engine has let it through.                                     *)
(***************************************************************************)
PipelineOps == {"recommend", "quick", "gap", "courses", "risk", "occupation", "dashboard"}

(* the optional trained artifacts *)
OptionalArtifacts ==
    {"sentence_transformers", "skill_dim_vectors", "career_ranker", "skill_scaler",
     "course_recommender"}

(* what reading an artifact can give at startup *)
Outcomes(name) ==
    IF name \in OptionalArtifacts THEN {"ok", "missing", "error"}
    ELSE IF name = "career_retriever" THEN {"ok", "missing"}
    ELSE {"ok"}

(* a load() that is past its last phase after any try block *)
FinishAfterAny(name) == "finish"

(* the artifact load() reads after name *)
NextArtifact(name) ==
    LET i == CHOOSE k \in DOMAIN AllArtifacts : AllArtifacts[k] = name
    IN  IF i = Len(AllArtifacts) THEN "finish" ELSE AllArtifacts[i + 1]

(* a dependency that lets every request through *)
require_nothing(e) == TRUE

(* _require_engine: TRUE when the request may go on, FALSE for the 503 *)
require_engine(e) == e.is_loaded

OccupationNames == {"web developers", "Data", "Pilot"}

ServiceTexts ==
    { [user_type |-> t, pathway |-> "", subject_combination |-> <<"">>,
       skills |-> sk, soft_skills |-> <<>>, career_goals |-> ""] :
        t \in {"graduate", "cbc"}, sk \in SeqUpTo({"Python"}, MaxPhrases) }

Requests ==
    { [op |-> o, raw |-> raw, n |-> n, courses_per_gap |-> 2] :
        o \in {"recommend", "quick"}, raw \in ServiceTexts, n \in {1, MaxTopN} }
    \cup
    { [op |-> "gap", user_skills |-> sk, occupation |-> occ, user_type |-> "graduate",
       top_n_gaps |-> MaxTopN, top_n_strong |-> DefaultTopNStrong,
       include_learning_path |-> lp, courses_per_gap |-> 2] :
        sk \in { <<>>, <<"Python">> }, occ \in OccupationNames, lp \in BOOLEAN }
    \cup
    { [op |-> "courses", skill_name |-> sk, top_k |-> k, level_filter |-> lv,
       min_quality |-> DefaultMinQuality] :
        sk \in {"Python", "skill_service"}, k \in {1, 5}, lv \in {"", "Foundation"} }
    \cup
    { [op |-> o, occupation |-> occ] : o \in {"risk", "occupation"}, occ \in OccupationNames }
    \cup
    { [op |-> "dashboard", user_type |-> t] : t \in {"", "cbc"} }
    \cup
    { [op |-> "health"] }

(* the raw_input the handler gives to the engine *)
RawOf(req) ==
    IF req.op \in {"recommend", "quick"} THEN req.raw
    ELSE IF req.op = "gap"
    THEN [user_type |-> req.user_type, pathway |-> "", subject_combination |-> <<"">>,
          skills |-> req.user_skills, soft_skills |-> <<>>, career_goals |-> ""]
    ELSE [user_type |-> "graduate", pathway |-> "", subject_combination |-> <<"">>,
          skills |-> <<>>, soft_skills |-> <<>>, career_goals |-> ""]

Response(req, status, result) ==
    [op |-> req.op, status |-> status, invoked |-> TRUE, result |-> result]

(* careers.py lines 50-57 *)
RecommendResponse(e, req, r) ==
    IF r.raised THEN Response(req, 500, <<>>)
    ELSE Response(req, 200,
            [career_details |-> r.career_details,
             recommendations |-> r.recommendations,
             n_requested |-> req.n, n_returned |-> Len(r.career_details),
             semantic_mode |-> e.semantic_available])

(* careers.py recommend_careers: any exception becomes a 500 *)
HandleRecommend(e, req, raw) ==
    IF ~e.master.loaded THEN Response(req, 500, <<>>)
    ELSE RecommendResponse(e, req, run_full_pipeline(e, raw, req.n, req.courses_per_gap))

QuickResponse(req, r) ==
    IF r.raised THEN Response(req, 500, <<>>) ELSE Response(req, 200, r.rows)

(* careers.py quick_recommend *)
HandleQuick(e, req, raw) ==
    IF ~e.master.loaded THEN Response(req, 500, <<>>)
    ELSE QuickResponse(req, recommend_careers(e, raw, req.n))

(* skills.py lines 76-87 *)
GapResponse(req, gap_report, path) ==
    IF req.include_learning_path /\ path.raised THEN Response(req, 500, <<>>)
    ELSE Response(req, 200,
            [gap_report |-> gap_report,
             learning_path |-> IF req.include_learning_path THEN <<path>> ELSE <<>>])

(* skills.py lines 70-82 *)
GapReportResponse(e, req, gap_report) ==
    GapResponse(req, gap_report,
                generate_learning_path(e, gap_report, req.user_type, req.courses_per_gap))

(* skills.py lines 52-75 *)
GapFor(e, req, parsed, occ) ==
    IF parsed.raised \/ ~e.master.loaded \/ occ < 0 THEN Response(req, 500, <<>>)
    ELSE IF occ = 0 THEN Response(req, 404, <<>>)
    ELSE GapReportResponse(e, req,
            analyse_skills_gap(e, parsed.scores, e.master.rows[occ],
                               req.top_n_gaps, req.top_n_strong))

(* skills.py analyse_gap: an exception reaches the global handler (500) *)
HandleGap(e, req, raw) ==
    GapFor(e, req, parse_user_skills(e, raw), FindOccupation(e, req.occupation))

CoursesResponse(req, r) ==
    IF r.raised THEN Response(req, 500, <<>>)
    ELSE Response(req, 200, [courses |-> r.courses, query |-> req.skill_name,
                             total_found |-> Len(r.courses)])

(* courses.py search_courses *)
HandleCourses(e, req) ==
    CoursesResponse(req, search_courses_for_skill(e, req.skill_name, req.top_k,
                                                  req.level_filter, req.min_quality))

(* risk.py get_risk_score (ai_risk_score 1 = 0.1 %) *)
HandleRisk(e, req) ==
    LET occ == FindOccupation(e, req.occupation)
    IN  IF ~e.master.loaded \/ occ < 0 THEN Response(req, 500, <<>>)
        ELSE IF occ = 0 THEN Response(req, 404, <<>>)
        ELSE Response(req, 200,
                [occupation |-> e.master.rows[occ].occupation,
                 ai_risk_score |-> e.master.rows[occ].blended_risk,
                 ai_risk_label |-> categorise_risk(e, e.master.rows[occ].blended_risk),
                 future_proof_score |-> e.master.rows[occ].future_proof_score])

(* occupations.py get_occupation *)
HandleOccupation(e, req) ==
    LET occ == FindOccupation(e, req.occupation)
    IN  IF ~e.master.loaded THEN Response(req, 503, <<>>)
        ELSE IF occ < 0 THEN Response(req, 500, <<>>)
        ELSE IF occ = 0 THEN Response(req, 404, <<>>)
        ELSE LET row == e.master.rows[occ]
             IN  Response(req, 200,
                    [occupation |-> row.occupation, job_zone |-> row.job_zone,
                     future_proof_score |-> row.future_proof_score,
                     ai_risk_label |-> categorise_risk(e, row.blended_risk),
                     skill_profile |->
                        [c \in { c \in Range(e.SKILL_COLS) : RowGet(row, c) > 0 } |->
                            RoundDiv(RowGet(row, c), 10)]])

(* dashboard.py get_dashboard: the filtered frame, its size, its risk      *)
(* distribution and its top careers by future_proof_score                  *)
HandleDashboard(e, req) ==
    IF ~e.master.loaded THEN Response(req, 503, <<>>)
    ELSE LET all      == [i \in DOMAIN e.master.rows |-> i]
             filtered == IF req.user_type = "" THEN all
                         ELSE FilterIdx(e.master.rows, 1,
                                 DictGet(e.USER_TYPE_JOB_ZONES, req.user_type, AllZones))
             df       == IF filtered = <<>> THEN all ELSE filtered
             labels   == { categorise_risk(e, e.master.rows[df[k]].blended_risk) :
                              k \in DOMAIN df }
             top      == FutureProofTop(e, df, 10)
         IN  Response(req, 200,
                [total_occupations |-> Len(df),
                 risk_dist |-> [l \in labels |->
                    Cardinality({ k \in DOMAIN df :
                       categorise_risk(e, e.master.rows[df[k]].blended_risk) = l })],
                 top_careers |-> [k \in DOMAIN top |-> e.master.rows[top[k].idx].occupation]])

Handler(e, req, raw) ==
    CASE req.op = "recommend"  -> HandleRecommend(e, req, raw)
      [] req.op = "quick"      -> HandleQuick(e, req, raw)
      [] req.op = "gap"        -> HandleGap(e, req, raw)
      [] req.op = "courses"    -> HandleCourses(e, req)
      [] req.op = "risk"       -> HandleRisk(e, req)
      [] req.op = "occupation" -> HandleOccupation(e, req)
      [] OTHER                 -> HandleDashboard(e, req)

Init ==
    /\ engine = Engine0
    /\ loadPc = Head(AllArtifacts)
    /\ pending = NoReq
    /\ resp = NoResp

(* one try block of load() whose exception, if any, is the one it catches *)
LoadStep ==
    /\ loadPc \in Range(AllArtifacts)
    /\ \E o \in Outcomes(loadPc) \ {"error"} :
          engine' = LoadOne(engine, loadPc, o)
    /\ loadPc' = NextArtifact(loadPc)
    /\ UNCHANGED <<pending, resp>>

(* a try block raises an exception it does not catch: load() ends there *)
LoadRaise ==
    /\ loadPc \in Range(AllArtifacts)
    /\ "error" \in Outcomes(loadPc)
    /\ loadPc' = "raised"
    /\ UNCHANGED <<engine, pending, resp>>

(* line 143 *)
FinishLoad ==
    /\ loadPc = "finish"
    /\ engine' = [engine EXCEPT !.is_loaded = TRUE]
    /\ loadPc' = "done"
    /\ UNCHANGED <<pending, resp>>

Arrive ==
    /\ Idle
    /\ \E req \in Requests : pending' = req @@ [stage |-> "arrived"]
    /\ UNCHANGED <<engine, loadPc, resp>>

(* Depends(_require_engine) lets the request through *)
Admit ==
    /\ pending.op \in PipelineOps
    /\ pending.stage = "arrived"
    /\ resp.op = "none"
    /\ require_engine(engine)
    /\ pending' = [pending EXCEPT !.stage = "admitted"]
    /\ UNCHANGED <<engine, loadPc, resp>>

(* Depends(_require_engine) raises HTTPException(503) *)
Reject ==
    /\ pending.op \in PipelineOps
    /\ pending.stage = "arrived"
    /\ resp.op = "none"
    /\ ~require_engine(engine)
    /\ resp' = [op |-> pending.op, status |-> 503, invoked |-> FALSE, result |-> <<>>]
    /\ UNCHANGED <<engine, loadPc, pending>>

(* an endpoint function that invalidates the course index it has used *)
HandleInvalidating ==
    /\ pending.op \in PipelineOps
    /\ pending.stage = "admitted"
    /\ resp.op = "none"
    /\ \E sims \in SimRows(engine, RawOf(pending), SimValues) :
          resp' = Handler(engine, pending, RawOf(pending) @@ [sims |-> sims])
    /\ engine' = [engine EXCEPT !.course_tfidf = FALSE]
    /\ UNCHANGED <<loadPc, pending>>

(* the endpoint function runs *)
Handle ==
    /\ pending.op \in PipelineOps
    /\ pending.stage = "admitted"
    /\ resp.op = "none"
    /\ \E sims \in SimRows(engine, RawOf(pending), SimValues) :
          resp' = Handler(engine, pending, RawOf(pending) @@ [sims |-> sims])
    /\ UNCHANGED <<engine, loadPc, pending>>

(* main.py health_check: not behind the dependency *)
Health ==
    /\ pending.op = "health"
    /\ resp.op = "none"
    /\ resp' = [op |-> "health", status |-> 200, invoked |-> FALSE,
                result |-> [loaded |-> engine.is_loaded,
                            occupations |-> engine.occupation_count,
                            courses |-> engine.course_count,
                            semantic_mode |-> engine.semantic_available]]
    /\ UNCHANGED <<engine, loadPc, pending>>

Next ==
    \/ LoadStep \/ LoadRaise \/ FinishLoad
    \/ Arrive \/ Admit \/ Reject \/ Handle \/ Health \/ Reply

Spec == Init /\ [][Next]_vars

(* C2: no pipeline operation runs while is_loaded is false: a request that *)
(* meets an engine that is not loaded gets the 503 and no pipeline logic   *)
(* is invoked for it.                                                      *)
C2_NotReadyRejected ==
    /\ [](pending.op \in PipelineOps =>
             /\ pending.stage = "admitted" => engine.is_loaded
             /\ (resp.op # "none" /\ resp.invoked) => engine.is_loaded
             /\ (resp.op # "none" /\ resp.status = 503) => ~resp.invoked)
    /\ [][(/\ pending.op \in PipelineOps
           /\ pending.stage = "arrived"
           /\ resp.op = "none"
           /\ ~engine.is_loaded
           /\ <<pending, resp>>' # <<pending, resp>>)
          => (pending' = pending /\ resp'.status = 503 /\ ~resp'.invoked)]_vars

(* a request rejected while load() is under way and part of the state is   *)
(* already there                                                           *)
C2_Witness ==
    /\ pending.op \in PipelineOps
    /\ resp.op # "none" /\ resp.status = 503 /\ ~resp.invoked
    /\ ~engine.is_loaded
    /\ engine.master.loaded
    /\ loadPc \in Range(AllArtifacts)

(* C3: whichever optional trained artifacts are absent or unobtainable,    *)
(* load() completes with is_loaded = true, and afterwards the engine's     *)
(* operations return without raising.                                      *)
C3_LoadSurvivesAbsentArtifacts ==
    /\ loadPc # "raised"
    /\ (resp.op \in PipelineOps /\ resp.invoked) => resp.status # 500

(* the second half alone: after a load() that completed no operation raises *)
C3_NoRaiseAfterLoad ==
    (resp.op \in PipelineOps /\ resp.invoked) => resp.status # 500

Locations ==
    {"processed", "processed_v2", "no_courses", "no_master", "empty_dir", "absent_dir",
     "corrupt_courses", "unreadable_dir", "NoneType"}

(* What pd.read_parquet(P / name) gives: the file's frame ("ok", "ok2"),   *)
(* FileNotFoundError ("missing") or another exception ("error":            *)
(* PermissionError, a parquet decoding error, and TypeError for P / name   *)
(* when P is not a path, as for the class the test fixture passes).        *)
FileAt(P, name) ==
    CASE P = "processed"       -> "ok"
      [] P = "processed_v2"    -> IF name = "master" THEN "ok2" ELSE "ok"
      [] P = "no_courses"      -> IF name = "master" THEN "ok" ELSE "missing"
      [] P = "no_master"       -> IF name = "master" THEN "missing" ELSE "ok"
      [] P = "empty_dir"       -> "missing"
      [] P = "absent_dir"      -> "missing"
      [] P = "corrupt_courses" -> IF name = "master" THEN "ok" ELSE "error"
      [] OTHER                 -> "error"

LookupNames ==
    {"web developers", "Data", "Pilot", "Software Developers", "Registered Nurses",
     "Nursing Assistants", "Greeters", "Computer Systems Analysts", " "}

InitData ==
    /\ engine = Engine0
    /\ loadPc = "master"
    /\ pending \in { [op |-> "_load_data", P |-> P] : P \in Locations }
    /\ resp = NoResp

(* one try block of _load_data whose read succeeds or raises FileNotFoundError *)
LoadDataStep ==
    /\ pending.op = "_load_data"
    /\ loadPc \in Range(DataArtifacts)
    /\ FileAt(pending.P, loadPc) # "error"
    /\ engine' = LoadOne(engine, loadPc, FileAt(pending.P, loadPc))
    /\ loadPc' = IF loadPc = "master" THEN "courses" ELSE "returning"
    /\ UNCHANGED <<pending, resp>>

(* the read raises an exception the try block does not catch *)
LoadDataRaise ==
    /\ pending.op = "_load_data"
    /\ loadPc \in Range(DataArtifacts)
    /\ FileAt(pending.P, loadPc) = "error"
    /\ loadPc' = "raised"
    /\ UNCHANGED <<engine, pending, resp>>

(* _load_data returns *)
LoadDataReturn ==
    /\ pending.op = "_load_data"
    /\ loadPc = "returning"
    /\ loadPc' = "done"
    /\ pending' = NoReq
    /\ UNCHANGED <<engine, resp>>

ArriveLookup ==
    /\ loadPc = "done"
    /\ Idle
    /\ \E name \in LookupNames : pending' = [op |-> "risk", occupation |-> name]
    /\ UNCHANGED <<engine, loadPc, resp>>

DoLookup ==
    /\ pending.op = "risk"
    /\ resp.op = "none"
    /\ resp' = HandleRisk(engine, pending)
    /\ UNCHANGED <<engine, loadPc, pending>>

NextData ==
    LoadDataStep \/ LoadDataRaise \/ LoadDataReturn \/ ArriveLookup \/ DoLookup \/ Reply

SpecData == InitData /\ [][NextData]_vars

Unreadable(name) == pending.op = "_load_data" /\ FileAt(pending.P, name) \notin {"ok", "ok2"}

DemoSubstituted ==
    /\ Unreadable("master") =>
          (engine.master = DemoMaster /\ engine.occupation_count = 3)
    /\ Unreadable("courses") =>
          (engine.courses = DemoCourses /\ engine.course_count = 2)
    /\ engine.occupation_count = Len(engine.master.rows)
    /\ engine.course_count = Len(engine.courses.rows)

(* C17: when a catalogue cannot be read from the location given to         *)
(* _load_data (missing file or any unusable location), _load_data does not *)
(* raise, and on return the unreadable catalogue is the demo catalogue     *)
(* (3 occupations, 2 courses) and the counts are the catalogues' sizes.    *)
C17_LoadDataFailsGracefully ==
    /\ loadPc # "raised"
    /\ loadPc = "returning" => DemoSubstituted

(* What holds: the same when every unreadable catalogue is a missing file. *)
C17_MissingFileGivesDemo ==
    (pending.op = "_load_data"
        /\ \A name \in Range(DataArtifacts) : FileAt(pending.P, name) # "error") =>
        /\ loadPc # "raised"
        /\ loadPc = "returning" => DemoSubstituted

C17_DemoReached ==
    /\ loadPc = "returning"
    /\ Unreadable("master")
    /\ Unreadable("courses")
    /\ DemoSubstituted

FirstOf(rows) == engine.master.rows[MinOf(rows)].occupation

(* rows matched by the substring search on the first word of the query *)
SubstringRows ==
    IF IsBlank(pending.occupation) THEN {}
    ELSE FirstWordRows(engine, pending.occupation)

(* C18: the lookup gives the first row whose title equals the query        *)
(* ignoring case; only when there is none, the first row whose title       *)
(* contains the query's first word; and when neither finds a row the       *)
(* operation answers not found (404), for every query string.              *)
C18_LookupExactThenFirstWord ==
    resp.op = "risk" =>
        LET exact == ExactRows(engine, pending.occupation) IN
        /\ exact # {} =>
              (resp.status = 200 /\ resp.result.occupation = FirstOf(exact))
        /\ (exact = {} /\ SubstringRows # {}) =>
              (resp.status = 200 /\ resp.result.occupation = FirstOf(SubstringRows))
        /\ (exact = {} /\ SubstringRows = {}) => resp.status = 404

(* What holds: the same for queries that have at least one word. *)
C18_LookupOfWords ==
    (resp.op = "risk" /\ ~IsBlank(pending.occupation)) =>
        LET exact == ExactRows(engine, pending.occupation) IN
        /\ exact # {} =>
              (resp.status = 200 /\ resp.result.occupation = FirstOf(exact))
        /\ (exact = {} /\ SubstringRows # {}) =>
              (resp.status = 200 /\ resp.result.occupation = FirstOf(SubstringRows))
        /\ (exact = {} /\ SubstringRows = {}) => resp.status = 404

C18_FirstWordMatchReached ==
    /\ resp.op = "risk"
    /\ pending.occupation = "Data"
    /\ resp.status = 200
    /\ resp.result.occupation = "Data Analysts"

(***************************************************************************)
(* Specification SpecPerm: the ranking of recommend_careers for a user     *)
(* score mapping, on an engine and on the same engine with its skill       *)
(* dimension list permuted.  The user vector and the requirement vectors   *)
(* are read through the dimension list (lines 416-417), so they are        *)
(* permuted with it.                                                       *)
(***************************************************************************)
PermEngines ==
    { LoadAll(Engine0,
              [a \in Range(AllArtifacts) |-> IF a \in absent THEN "missing" ELSE ok]) :
        ok \in {"ok", "ok2"},
        absent \in SUBSET {"career_ranker", "career_goal_boosts"} }

PermScoreValues == {0, 3000, 5000}

Perms(n) == { p \in [1..n -> 1..n] : \A i \in 1..n : \A j \in 1..n : p[i] = p[j] => i = j }

PermuteCols(e, p) == [e EXCEPT !.SKILL_COLS = [i \in DOMAIN p |-> e.SKILL_COLS[p[i]]]]

PermTexts ==
    { [user_type |-> t, career_goals |-> g] :
        t \in {"graduate", "cbc"}, g \in {"", "health"} }

(* the occupations returned, in order (catalogue indices) *)
RankingOf(top) == [k \in DOMAIN top |-> top[k].idx]

InitPerm ==
    /\ engine \in PermEngines
    /\ loadPc = "done"
    /\ pending = NoReq
    /\ resp = NoResp

ArrivePerm ==
    /\ Idle
    /\ \E user \in [Range(engine.SKILL_COLS) -> PermScoreValues],
          p \in Perms(Len(engine.SKILL_COLS)), raw \in PermTexts, n \in 1..MaxTopN :
          pending' = [op |-> "recommend_permuted", user |-> user, perm |-> p,
                      raw |-> raw, n |-> n]
    /\ UNCHANGED <<engine, loadPc, resp>>

DoPerm ==
    /\ pending.op = "recommend_permuted"
    /\ resp.op = "none"
    /\ resp' = [op |-> pending.op,
                ranking  |-> RankingOf(TopFrame(engine, pending.raw, pending.user, pending.n)),
                permuted |-> RankingOf(TopFrame(PermuteCols(engine, pending.perm),
                                                pending.raw, pending.user, pending.n))]
    /\ UNCHANGED <<engine, loadPc, pending>>

NextPerm == ArrivePerm \/ DoPerm \/ Reply

SpecPerm == InitPerm /\ [][NextPerm]_vars

(* C20 as stated: the occupations returned by recommend_careers and their  *)
(* order are the same after a permutation of the skill dimensions applied  *)
(* to the dimension list, the user vector and the requirement vectors.     *)
C20_RankingPermutationInvariant ==
    resp.op = "recommend_permuted" => resp.permuted = resp.ranking

(* C20 amended: the same when the learned re-ranker is not part of the     *)
(* final score (it is not loaded, or it raises): the ranking by cosine     *)
(* similarity and goal bonus is invariant under the permutation.           *)
C20_CosineRankingPermutationInvariant ==
    (resp.op = "recommend_permuted" /\ ~(BothModelsLoaded /\ ModelsFit)) =>
        resp.permuted = resp.ranking

(* a permutation that moves a dimension, a user with unequal scores, and   *)
(* two or more results ranked by cosine similarity                         *)
C20_Witness ==
    /\ resp.op = "recommend_permuted"
    /\ ~BothModelsLoaded
    /\ \E i \in DOMAIN pending.perm : pending.perm[i] # i
    /\ \E c \in DOMAIN pending.user : \E d \in DOMAIN pending.user :
          pending.user[c] > pending.user[d] /\ pending.user[d] > 0
    /\ Len(resp.ranking) >= 2
    /\ resp.permuted = resp.ranking


(***************************************************************************)
(* Specification SpecLoad: load() one try block at a time, with every      *)
(* outcome of the data files and of one artifact of each later phase, and  *)
(* load() called again after it completed or raised.  pending holds the    *)
(* number of the call.                                                     *)
(***************************************************************************)
MaxLoads == 2

(* what reading an artifact can give in a call of load() *)
LoadOutcomes(name) ==
    IF name \in {"master", "courses", "sentence_transformers"}
    THEN {"ok", "missing", "error"}
    ELSE IF name \in {"career_ranker", "skill_dim_vectors"} THEN {"ok", "error"}
    ELSE IF name \in {"skills_gap_engine", "course_recommender"} THEN {"ok", "missing"}
    ELSE {"ok"}

InitLoad ==
    /\ engine = Engine0
    /\ loadPc = Head(AllArtifacts)
    /\ pending = [op |-> "load", call |-> 1]
    /\ resp = NoResp

(* one try block whose exception, if any, is the one it catches *)
LoadStepAny ==
    /\ loadPc \in Range(AllArtifacts)
    /\ \E o \in LoadOutcomes(loadPc) \ {"error"} :
          engine' = LoadOne(engine, loadPc, o)
    /\ loadPc' = NextArtifact(loadPc)
    /\ UNCHANGED <<pending, resp>>

(* a try block raises an exception it does not catch: load() ends there *)
LoadRaiseAny ==
    /\ loadPc \in Range(AllArtifacts)
    /\ "error" \in LoadOutcomes(loadPc)
    /\ loadPc' = "raised"
    /\ UNCHANGED <<engine, pending, resp>>

(* load() is called again on the same engine *)
LoadAgain ==
    /\ loadPc \in {"done", "raised"}
    /\ pending.call < MaxLoads
    /\ loadPc' = Head(AllArtifacts)
    /\ pending' = [pending EXCEPT !.call = @ + 1]
    /\ UNCHANGED <<engine, resp>>

NextLoad == LoadStepAny \/ LoadRaiseAny \/ FinishLoad \/ LoadAgain

SpecLoad == InitLoad /\ [][NextLoad]_vars

(* the phase of load() a position belongs to: 1 catalogues, 2 models,      *)
(* 3 configuration artifacts, 4 semantic model, 5 past the last phase      *)
PhaseOf(pc) ==
    IF pc \in Range(DataArtifacts) THEN 1
    ELSE IF pc \in Range(ModelArtifacts) THEN 2
    ELSE IF pc \in Range(ConfigArtifacts) THEN 3
    ELSE IF pc \in Range(SemanticArtifacts) THEN 4
    ELSE IF pc \in {"finish", "done"} THEN 5
    ELSE 0

CataloguesPopulated == engine.master.loaded /\ engine.courses.loaded

(* C30: during load() is_loaded becomes true only after the catalogue,     *)
(* model, configuration and semantic-model phases have all completed, in   *)
(* that order (the catalogues are populated when the model phase starts);  *)
(* in every reachable state is_loaded implies that both catalogues are     *)
(* populated; and when a phase raises is_loaded keeps its previous value.  *)
C30_LoadedOnlyAfterAllPhases ==
    /\ [](engine.is_loaded => CataloguesPopulated)
    /\ [](PhaseOf(loadPc) \in 2..5 => CataloguesPopulated)
    /\ [][ /\ (engine'.is_loaded /\ ~engine.is_loaded) =>
                 (loadPc = "finish" /\ loadPc' = "done")
           /\ (loadPc' = "finish" /\ loadPc # "finish") => PhaseOf(loadPc) = 4
           /\ (PhaseOf(loadPc) \in 1..4 /\ loadPc' # "raised") =>
                 PhaseOf(loadPc') \in {PhaseOf(loadPc), PhaseOf(loadPc) + 1}
           /\ loadPc' = "raised" =>
                 (PhaseOf(loadPc) \in 1..4 /\ engine'.is_loaded = engine.is_loaded) ]_vars

(* the first load() completed on the demo catalogues *)
C30_Witness ==
    /\ loadPc = "done"
    /\ pending.call = 1
    /\ engine.is_loaded
    /\ engine.master = DemoMaster
    /\ engine.courses = DemoCourses
    /\ engine.course_tfidf

(* the first load() raised in the semantic-model phase: not loaded *)
C30_WitnessRaisedFirst ==
    /\ loadPc = "raised"
    /\ pending.call = 1
    /\ ~engine.is_loaded
    /\ CataloguesPopulated
    /\ engine.skill_dim_vecs.loaded

(* a second load() raised: is_loaded is still true *)
C30_WitnessRaisedAgain ==
    /\ loadPc = "raised"
    /\ pending.call = 2
    /\ engine.is_loaded

====
